---- MODULE Spec2Model ----
(***************************************************************************)
(* A model of the WebGL deferred renderer (GLDeferredRenderer.js, main.js  *)
(* and the shader sources).                                                *)
(*                                                                         *)
(* The program talks to the GPU only through GL calls, so the model keeps  *)
(* the program's own objects (renderer, cameras, materials, scene) as      *)
(* variables and records, in cmds, the GL calls the most recent handler    *)
(* issued, in issue order.  Every handler of the program is one action.    *)
(*                                                                         *)
(* Numbers the program computes with / and * are kept as exact fractions   *)
(* <<n, d>>; matrices are kept as the tuple of the values they are built   *)
(* from.                                                                   *)
(***************************************************************************)
EXTENDS Integers, Sequences, FiniteSets, TLC

\* ------------------------------------------------------------- bounds ---
\* Number of mesh instances the scene holds (main.js adds 10).
NumMeshes == 2
\* Number of point lights the scene holds (main.js adds 4).
NumLights == 2

\* Window sizes (innerWidth, innerHeight) the host moves between: a
\* landscape one and a portrait one.
WinSizes == {<<8, 4>>, <<4, 8>>}

\* ---------------------------------------------------------- fractions ---
Abs(x) == IF x < 0 THEN -x ELSE x

RECURSIVE GCD(_, _)
GCD(a, b) == IF b = 0 THEN a ELSE GCD(b, a % b)

\* The fraction n/d in lowest terms with a positive denominator.
Frac(n, d) ==
    LET g == GCD(Abs(n), Abs(d))
        s == IF d < 0 THEN -1 ELSE 1
    IN  <<(s * n) \div g, (s * d) \div g>>

FInt(n) == <<n, 1>>
FMul(x, y) == Frac(x[1] * y[1], x[2] * y[2])
FDiv(x, y) == Frac(x[1] * y[2], x[2] * y[1])
FAdd(x, y) == Frac(x[1] * y[2] + y[1] * x[2], x[2] * y[2])
FSub(x, y) == Frac(x[1] * y[2] - y[1] * x[2], x[2] * y[2])
FNeg(x) == <<-x[1], x[2]>>
FHalf(x) == FMul(x, Frac(1, 2))
FLe(x, y) == x[1] * y[2] <= y[1] * x[2]
FMin(x, y) == IF FLe(x, y) THEN x ELSE y
FMax(x, y) == IF FLe(x, y) THEN y ELSE x

\* clamp(val, min, max)
Clamp(val, min, max) == FMin(FMax(val, min), max)

RECURSIVE Flatten(_)
Flatten(ss) == IF ss = <<>> THEN <<>> ELSE Head(ss) \o Flatten(Tail(ss))

\* ------------------------------------------------------ GL call record ---
\* One GL call: op is the GL function, a and b its arguments, owner the
\* instance on whose behalf it was issued (0: the renderer itself,
\* 1..NumMeshes: a scene mesh, DefQuad, BufQuad: the two quads).
Cmd(op, owner, a, b) == [op |-> op, owner |-> owner, a |-> a, b |-> b]

DefQuad == NumMeshes + 1
BufQuad == NumMeshes + 2

\* ------------------------------------------------------- shader sources ---
\* The four programs, in the order init_shaders constructs them.
ShaderNames == <<"default", "passthrough", "gBuffer", "deferred">>
ShaderSet == {ShaderNames[i] : i \in 1..Len(ShaderNames)}

\* Keys of GLShader.locations and the GLSL attribute each one looks up.
AttribKeys == <<"position", "normal", "tangent", "uv", "colour">>

\* layout(location = N) of the attribute a key names in a shader's vertex
\* source; -1 when the source declares no such attribute.
SourceAttribLocation(shader, key) ==
    IF shader \in {"default", "gBuffer"}
    THEN CASE key = "position" -> 0
           [] key = "normal"   -> 1
           [] key = "tangent"  -> 2
           [] key = "uv"       -> 3
           [] OTHER            -> -1
    ELSE CASE key = "position" -> 0
           [] key = "uv"       -> 1
           [] OTHER            -> -1

\* Keys of GLShader.uniforms and the GLSL uniform each one looks up.
UniformKeys == <<"projectionMatrix", "modelMatrix", "modelViewMatrix",
                 "cameraPosition", "albedo", "normal", "material", "base",
                 "position">>

UniformGLSLName(key) ==
    CASE key = "projectionMatrix" -> "projection"
      [] key = "modelMatrix"      -> "model"
      [] key = "modelViewMatrix"  -> "modelView"
      [] key = "cameraPosition"   -> "cameraPosition"
      [] key = "albedo"           -> "albedoTexture"
      [] key = "normal"           -> "normalTexture"
      [] key = "material"         -> "materialTexture"
      [] key = "base"             -> "baseTexture"
      [] key = "position"         -> "positionTexture"
      [] OTHER                    -> key

\* The uniforms a shader's source declares.
SourceUniforms(shader) ==
    {"projection", "model", "modelView"} \cup
    CASE shader = "default"     -> {"albedoTexture", "normalTexture", "cameraPosition"}
      [] shader = "passthrough" -> {"baseTexture"}
      [] shader = "gBuffer"     -> {"albedoTexture", "normalTexture", "materialTexture"}
      [] shader = "deferred"    -> {"albedoTexture", "normalTexture", "materialTexture",
                                    "positionTexture", "cameraPosition", "lights"}

\* layout(location = N) of the geometry fragment shader's outputs, by the
\* channel each output writes.
GBufferOutputLocation(channel) ==
    CASE channel = "position" -> 0
      [] channel = "albedo"   -> 1
      [] channel = "normal"   -> 2
      [] channel = "material" -> 3

Channels == {"position", "albedo", "normal", "material"}

\* ------------------------------------------------------------ GLShader ---
\* What the host answers when a program is built: both stages compile and
\* the program links, one stage fails to compile, or the link fails.
ShaderOutcomes == {"ok", "vertexFail", "fragmentFail", "linkFail"}

\* GLShader.load: compiles one stage; on failure logs the info log, deletes
\* the shader and returns null.
GLShaderLoad(name, stage, compiles) ==
    [cmds |-> <<Cmd("createShader", 0, stage, name),
                Cmd("shaderSource", 0, stage, name),
                Cmd("compileShader", 0, stage, name)>>
              \o (IF compiles THEN <<>>
                  ELSE <<Cmd("deleteShader", 0, stage, name)>>),
     log |-> IF compiles THEN <<>> ELSE <<<<"getShaderInfoLog", name>>>>,
     shader |-> IF compiles THEN stage ELSE "null"]

\* GLShader.init (with the constructor that calls it).  attachShader takes
\* a WebGLShader, so handing it the null that load returned raises a
\* TypeError and init never returns (threw).  A program that did not link
\* answers every location query with "not found" (-1, null).
GLShaderInit(name, outcome) ==
    LET vert == GLShaderLoad(name, "VERTEX_SHADER", outcome # "vertexFail")
        frag == GLShaderLoad(name, "FRAGMENT_SHADER", outcome # "fragmentFail")
        linked == outcome = "ok"
        create == <<Cmd("createProgram", 0, name, name)>>
        attachV == <<Cmd("attachShader", 0, name, vert.shader)>>
        attachF == <<Cmd("attachShader", 0, name, frag.shader)>>
        link == <<Cmd("linkProgram", 0, name, name)>>
    IN  IF vert.shader = "null"
        THEN [threw |-> TRUE, cmds |-> vert.cmds \o frag.cmds \o create,
              log |-> vert.log \o frag.log, object |-> [program |-> "null"]]
        ELSE IF frag.shader = "null"
        THEN [threw |-> TRUE, cmds |-> vert.cmds \o frag.cmds \o create \o attachV,
              log |-> vert.log \o frag.log, object |-> [program |-> "null"]]
        ELSE [threw |-> FALSE,
              cmds |-> vert.cmds \o frag.cmds \o create \o attachV \o attachF \o link,
              log |-> IF linked THEN <<>> ELSE <<<<"Failed to compile shader", name>>>>,
              object |->
                [program |-> name,
                 locations |-> [k \in {AttribKeys[i] : i \in 1..Len(AttribKeys)} |->
                                  IF linked THEN SourceAttribLocation(name, k) ELSE -1],
                 uniforms |-> [k \in {UniformKeys[i] : i \in 1..Len(UniformKeys)} |->
                                  IF linked /\ UniformGLSLName(k) \in SourceUniforms(name)
                                  THEN UniformGLSLName(k) ELSE "null"]]]

\* GLShader.addUniform: looks one more uniform up by its own name.
GLShaderAddUniform(shader, name, linked) ==
    [shader EXCEPT !.uniforms =
        (name :> (IF linked /\ name \in SourceUniforms(shader.program)
                  THEN name ELSE "null")) @@ shader.uniforms]

\* GLShader.setMatrices
GLShaderSetMatrices(shader, owner, projection, model, modelView) ==
    <<Cmd("uniformMatrix4fv", owner, shader.uniforms["projectionMatrix"], projection),
      Cmd("uniformMatrix4fv", owner, shader.uniforms["modelMatrix"], model),
      Cmd("uniformMatrix4fv", owner, shader.uniforms["modelViewMatrix"], modelView)>>

\* GLShader.setUniformFloat3
GLShaderSetUniformFloat3(shader, owner, value, name) ==
    <<Cmd("uniform3fv", owner, shader.uniforms[name], value)>>

\* this.locations[b]: the stored location, or undefined for a role that is
\* no key of locations.
ResolvedLocation(shader, role) ==
    IF role \in DOMAIN shader.locations
    THEN [defined |-> TRUE, value |-> shader.locations[role]]
    ELSE [defined |-> FALSE, value |-> 0]

\* loc == -1: false for undefined.
IsMinusOne(loc) == loc.defined /\ loc.value = -1

\* The GLuint a GL call receives: undefined converts to NaN and NaN to 0.
ToGLuint(loc) == IF loc.defined THEN loc.value ELSE 0

\* The GL calls one buffer role costs in GLShader.bind.
BindBufferCmds(shader, owner, buff) ==
    LET loc == ResolvedLocation(shader, buff.name)
    IN  IF buff.name = "index"
        THEN <<Cmd("bindBuffer", owner, "ELEMENT_ARRAY_BUFFER", buff.id)>>
        ELSE IF IsMinusOne(loc)
        THEN <<>>
        ELSE <<Cmd("bindBuffer", owner, "ARRAY_BUFFER", buff.id),
               Cmd("vertexAttribPointer", owner, ToGLuint(loc), buff.itemSize),
               Cmd("enableVertexAttribArray", owner, ToGLuint(loc), buff.id)>>

\* GLShader.bind: every buffer role of the mesh in insertion order, then
\* the program is made current.
GLShaderBind(shader, owner, buffers) ==
    Flatten([i \in 1..Len(buffers) |-> BindBufferCmds(shader, owner, buffers[i])])
    \o <<Cmd("useProgram", owner, shader.program, shader.program)>>

\* ------------------------------------------------------- Mesh and Quad ---
Buffer(geometry, name, itemSize, numItems) ==
    [id |-> <<geometry, name>>, name |-> name, itemSize |-> itemSize,
     numItems |-> numItems]

\* Mesh.buffers in insertion order: cubeMesh as main.js fills it (36
\* vertices), and the Quad the Quad constructor fills.
MeshBuffers(geometry) ==
    IF geometry = "quad"
    THEN <<Buffer("quad", "position", 3, 4), Buffer("quad", "uv", 2, 4),
           Buffer("quad", "index", 1, 6)>>
    ELSE <<Buffer(geometry, "position", 3, 36), Buffer(geometry, "normal", 3, 36),
           Buffer(geometry, "uv", 2, 36), Buffer(geometry, "tangent", 3, 36)>>

BufferNamed(geometry, name) ==
    LET bs == MeshBuffers(geometry)
    IN  bs[CHOOSE i \in 1..Len(bs) : bs[i].name = name]

\* Mesh.draw and Quad.draw
MeshDraw(geometry, owner) ==
    IF geometry = "quad"
    THEN <<Cmd("drawElements", owner, "TRIANGLES", BufferNamed(geometry, "index").numItems)>>
    ELSE <<Cmd("drawArrays", owner, "TRIANGLES", BufferNamed(geometry, "position").numItems)>>

\* ------------------------------------------------ Material and Texture ---
\* A texture is named by the material it was created for and its role.
\* Material constructor: albedo, normal, material, in this key order.
Material(name) ==
    [roles |-> <<"albedo", "normal", "material">>,
     textures |-> [r \in {"albedo", "normal", "material"} |-> <<name, r>>]]

\* Material.addTexture: a new key goes last, an existing key keeps its place.
MaterialAddTexture(mat, tex, name) ==
    [roles |-> IF name \in DOMAIN mat.textures THEN mat.roles
               ELSE Append(mat.roles, name),
     textures |-> (name :> tex) @@ mat.textures]

\* Texture.bind
TextureBind(tex, owner, position) ==
    <<Cmd("activeTexture", owner, position, position),
      Cmd("bindTexture", owner, "TEXTURE_2D", tex)>>

\* A Material.bind that never advances the texture unit.
MaterialBindOneUnit(mat, shader, owner) ==
    Flatten([i \in 1..Len(mat.roles) |->
        TextureBind(mat.textures[mat.roles[i]], owner, 0)
        \o <<Cmd("uniform1i", owner, shader.uniforms[mat.roles[i]], 0)>>])

\* Material.bind: the textures in key order on units 0, 1, 2, ..., each
\* unit number written to the sampler uniform of the same key.
MaterialBind(mat, shader, owner) ==
    Flatten([i \in 1..Len(mat.roles) |->
        TextureBind(mat.textures[mat.roles[i]], owner, i - 1)
        \o <<Cmd("uniform1i", owner, shader.uniforms[mat.roles[i]], i - 1)>>])

\* -------------------------------------------------------- MeshInstance ---
\* MeshInstance.bind: model matrix from rotation, translation and scale,
\* model-view from the attribute set's view matrix, then shader, matrices,
\* camera position and material.
MeshInstanceBindBuffers(inst, owner, buffers, mat, shader, attributes) ==
    LET modelMatrix == <<inst.rotation, inst.position, inst.scale>>
        modelViewMatrix == <<attributes.viewMatrix, modelMatrix>>
    IN  GLShaderBind(shader, owner, buffers)
        \o GLShaderSetMatrices(shader, owner, attributes.projectionMatrix,
                               modelMatrix, modelViewMatrix)
        \o GLShaderSetUniformFloat3(shader, owner, attributes.cameraPosition,
                                    "cameraPosition")
        \o MaterialBind(mat, shader, owner)

\* MeshInstance.bind of an instance of one of the program's own meshes.
MeshInstanceBind(inst, owner, mat, shader, attributes) ==
    MeshInstanceBindBuffers(inst, owner, MeshBuffers(inst.mesh), mat, shader, attributes)

\* MeshInstance.draw
MeshInstanceDraw(inst, owner) == MeshDraw(inst.mesh, owner)

\* -------------------------------------------------------------- Camera ---
\* Vectors are tuples of fractions.  A matrix is kept as what it was built
\* from: kind names the glMatrix constructor, v its arguments.
Vec3(x, y, z) == <<FInt(x), FInt(y), FInt(z)>>

\* mat4.create(): the identity.
Identity == [kind |-> "identity", v |-> <<>>]

\* mat4.perspective(out, fov * M_RAD, aspect, zNear, zFar); zNear is in
\* tenths (0.1 is passed as 1).
Perspective(fov, aspect, zNearTenths, zFar) ==
    [kind |-> "perspective",
     v |-> <<FInt(fov), aspect, Frac(zNearTenths, 10), FInt(zFar)>>]

\* mat4.ortho(out, left, right, bottom, top, 0.1, 16000)
Ortho(left, right, bottom, top) ==
    [kind |-> "ortho", v |-> <<left, right, bottom, top, Frac(1, 10), FInt(16000)>>]

\* mat4.lookAt(out, eye, center, [0, 1, 0])
LookAt(eye, center) == [kind |-> "lookAt", v |-> eye \o center]

\* mat4.invert(out, m)
Invert(m) == [kind |-> "inverse", of |-> m]

\* Camera constructor
Camera ==
    [position |-> Vec3(0, 0, 0), lookAt |-> Vec3(0, 0, 0), viewMatrix |-> Identity,
     cameraMatrix |-> Invert(Identity), projectionMatrix |-> Identity]

\* What Camera.update publishes into the shared attribute set.
Publish(cam, attributes) ==
    [attributes EXCEPT !.projectionMatrix = cam.projectionMatrix,
                       !.viewMatrix = cam.viewMatrix,
                       !.cameraMatrix = cam.cameraMatrix,
                       !.cameraPosition = cam.position]

\* Camera.update: [1] the camera, [2] the attribute set.
CameraUpdate(cam, attributes) ==
    LET c == [cam EXCEPT !.viewMatrix = LookAt(cam.position, cam.lookAt),
                         !.cameraMatrix = Invert(LookAt(cam.position, cam.lookAt))]
    IN  <<c, Publish(c, attributes)>>

\* OrbitController constructor
\* Numbers are exact fractions; dragListeners counts the mousemove (and as
\* many mouseup) listeners the handlers have registered on the canvas and not
\* removed, touchListeners the touchmove (touchend, touchcancel) ones.
OrbitController(boomLength) ==
    [pitch |-> FInt(0), pitchRot |-> FInt(0), pitchSpd |-> Frac(2, 10),
     pitchMax |-> FInt(89), yaw |-> FInt(0), yawRot |-> FInt(0),
     yawSpd |-> Frac(2, 10), boomLength |-> FInt(boomLength),
     rotationCenter |-> <<0, 0, 0>>, mouseHeld |-> FALSE, touchStarted |-> FALSE,
     dragListeners |-> 0, touchListeners |-> 0]

\* OrbitController.getViewMatrix: a function of pitch, yaw, the rotation
\* centre and the boom length.
OrbitGetViewMatrix(orbit) ==
    [kind |-> "orbit",
     v |-> <<orbit.pitch, orbit.yaw, orbit.boomLength,
             FInt(orbit.rotationCenter[1]), FInt(orbit.rotationCenter[2]),
             FInt(orbit.rotationCenter[3])>>]

\* OrbitController.setPitchMax
SetPitchMax(orbit, limitInDegrees) ==
    [orbit EXCEPT !.pitchMax = FMin(FInt(89), FMax(FInt(0), limitInDegrees))]

\* OrbitController.setSpeed
SetSpeed(orbit, pitchSpeed, yawSpeed) ==
    [orbit EXCEPT !.pitchSpd = pitchSpeed, !.yawSpd = yawSpeed]

\* OrbitController.setRotations: the bounds of the clamp are the pitch the
\* controller has, not its pitchMax.
SetRotations(orbit, pitch, yaw) ==
    [orbit EXCEPT !.pitch = Clamp(pitch, FNeg(orbit.pitch), orbit.pitch),
                  !.yaw = yaw]

\* OrbitController.setBoomLength
SetBoomLength(orbit, boomLength) == [orbit EXCEPT !.boomLength = boomLength]

\* OrbitController.handleZoom
HandleZoom(orbit, deltaY) ==
    [orbit EXCEPT !.boomLength =
        FMin(FMax(FInt(80), FAdd(orbit.boomLength, FMul(deltaY, Frac(2, 10)))),
             FInt(500))]

\* OrbitController.handleRotate
HandleRotate(orbit, vx, vy) ==
    [orbit EXCEPT !.pitch = Clamp(FAdd(orbit.pitch,
                                       FMul(orbit.pitchSpd, FSub(vy, orbit.yawRot))),
                                  FNeg(orbit.pitchMax), orbit.pitchMax),
                  !.yaw = FAdd(orbit.yaw, FMul(orbit.yawSpd, FSub(vx, orbit.pitchRot))),
                  !.pitchRot = vx,
                  !.yawRot = vy]

\* OrbitController.onMouseDown, the canvas's bounds at the origin.
OnMouseDown(orbit, x, y) ==
    IF orbit.mouseHeld THEN orbit
    ELSE [orbit EXCEPT !.pitchRot = x, !.yawRot = y, !.mouseHeld = TRUE,
                       !.dragListeners = @ + 1]

\* OrbitController.onMouseDrag
OnMouseDrag(orbit, x, y) ==
    IF ~orbit.mouseHeld THEN orbit ELSE HandleRotate(orbit, x, y)

\* OrbitController.onMouseUp: removeEventListener is given functions that
\* were never added, so the listeners stay.
OnMouseUp(orbit) ==
    IF ~orbit.mouseHeld THEN orbit ELSE [orbit EXCEPT !.mouseHeld = FALSE]

\* OrbitController.onTouchCancel: as onMouseUp, the listeners stay.
OnTouchCancel(orbit) ==
    IF orbit.touchStarted THEN [orbit EXCEPT !.touchStarted = FALSE] ELSE orbit

\* OrbitController.onTouchStart with that many touches, the first at (x, y).
OnTouchStart(orbit, touches, x, y) ==
    IF touches # 1 THEN OnTouchCancel(orbit)
    ELSE [orbit EXCEPT !.pitchRot = x, !.yawRot = y, !.touchListeners = @ + 1,
                       !.touchStarted = TRUE]

\* OrbitController.onTouchMove
OnTouchMove(orbit, touches, x, y) ==
    IF touches # 1 \/ ~orbit.touchStarted THEN OnTouchCancel(orbit)
    ELSE HandleRotate(orbit, x, y)

\* OrbitController.onTouchEnd
OnTouchEnd(orbit) == OnTouchCancel(orbit)

\* The canvas dispatches an event to the n listeners registered for it, one
\* after the other.
RECURSIVE Dispatch(_, _, _, _, _, _)
Dispatch(orbit, type, touches, x, y, n) ==
    IF n = 0 THEN orbit
    ELSE Dispatch(CASE type = "mousemove" -> OnMouseDrag(orbit, x, y)
                    [] type = "mouseup" -> OnMouseUp(orbit)
                    [] type = "touchmove" -> OnTouchMove(orbit, touches, x, y)
                    [] type = "touchend" -> OnTouchEnd(orbit)
                    [] type = "touchcancel" -> OnTouchCancel(orbit),
                  type, touches, x, y, n - 1)

\* The translation column of the inverse of an orbit view matrix.  With
\* pitch = yaw = 0 the view matrix is a pure translation by
\* (0, 0, -boomLength), so its inverse translates by (0, 0, boomLength).
OrbitCameraPosition(orbit) ==
    <<FInt(0), FInt(0), orbit.boomLength>>

\* The update that PerspectiveCamera.addOrbitController installs.
OrbitUpdate(cam, attributes) ==
    LET view == OrbitGetViewMatrix(cam.orbit)
        c == [cam EXCEPT !.viewMatrix = view, !.cameraMatrix = Invert(view),
                         !.position = OrbitCameraPosition(cam.orbit)]
    IN  <<c, Publish(c, attributes)>>

\* PerspectiveCamera constructor with setPerspective.
PerspectiveCamera(fov, zNearTenths, zFar, win) ==
    [Camera EXCEPT !.projectionMatrix =
        Perspective(fov, Frac(win[1], win[2]), zNearTenths, zFar)]
    @@ [aspect |-> Frac(win[1], win[2]), fov |-> fov, zNear |-> zNearTenths,
        zFar |-> zFar, hasOrbit |-> FALSE, orbit |-> OrbitController(0)]

\* PerspectiveCamera.onWindowResize
PerspectiveOnWindowResize(cam, win) ==
    [cam EXCEPT !.aspect = Frac(win[1], win[2]),
                !.projectionMatrix =
                    Perspective(cam.fov, Frac(win[1], win[2]), cam.zNear, cam.zFar)]

\* PerspectiveCamera.addOrbitController
AddOrbitController(cam, boomLength) ==
    [cam EXCEPT !.hasOrbit = TRUE, !.orbit = OrbitController(boomLength)]

\* A main-camera update that recomputes the camera but publishes nothing.
PerspectiveUpdateUnpublished(cam, attributes) ==
    IF cam.hasOrbit THEN <<OrbitUpdate(cam, attributes)[1], attributes>>
    ELSE <<CameraUpdate(cam, attributes)[1], attributes>>

\* The main camera's update: the orbit one once a controller is added.
PerspectiveUpdate(cam, attributes) ==
    IF cam.hasOrbit THEN OrbitUpdate(cam, attributes) ELSE CameraUpdate(cam, attributes)

\* A setOrthographic that keeps the requested size of the shorter screen
\* dimension and derives the other.
SetOrthographicShorter(cam, width, height, win) ==
    LET wide == win[1] > win[2]
        w == IF wide THEN FMul(height, Frac(win[1], win[2])) ELSE width
        h == IF wide THEN height ELSE FMul(width, Frac(win[2], win[1]))
    IN  [cam EXCEPT !.width = width, !.height = height,
                    !.left = FNeg(FHalf(w)), !.right = FHalf(w),
                    !.bottom = FNeg(FHalf(h)), !.top = FHalf(h)]

\* A setOrthographic that takes the requested width and height as they are.
SetOrthographicUnadjusted(cam, width, height, win) ==
    [cam EXCEPT !.width = width, !.height = height,
                !.left = FNeg(FHalf(width)), !.right = FHalf(width),
                !.bottom = FNeg(FHalf(height)), !.top = FHalf(height)]

\* OrthographicCamera.setOrthographic
SetOrthographic(cam, width, height, win) ==
    LET wide == win[1] > win[2]
        aspect == IF wide THEN Frac(win[2], win[1]) ELSE Frac(win[1], win[2])
        w == IF wide THEN width ELSE FMul(height, aspect)
        h == IF wide THEN FMul(width, aspect) ELSE height
    IN  [cam EXCEPT !.width = width, !.height = height,
                    !.left = FNeg(FHalf(w)), !.right = FHalf(w),
                    !.bottom = FNeg(FHalf(h)), !.top = FHalf(h)]

\* OrthographicCamera constructor
OrthographicCamera(width, height, win) ==
    SetOrthographic(
        [Camera EXCEPT !.position = Vec3(0, 0, 100)]
        @@ [width |-> FInt(0), height |-> FInt(0), left |-> FInt(0),
            right |-> FInt(0), bottom |-> FInt(0), top |-> FInt(0)],
        width, height, win)

\* A resize that scales the extents the camera has instead of taking the
\* window's.
OrthographicOnWindowResizeScaled(cam, win) ==
    SetOrthographic(cam, FMul(cam.right, FInt(win[1])), FMul(cam.top, FInt(win[2])), win)

\* OrthographicCamera.onWindowResize
OrthographicOnWindowResize(cam, win) ==
    SetOrthographic(cam, FInt(win[1]), FInt(win[2]), win)

\* OrthographicCamera.update
OrthographicUpdate(cam, attributes) ==
    CameraUpdate(
        [cam EXCEPT !.projectionMatrix =
            Ortho(FAdd(cam.position[1], cam.left), FAdd(cam.position[1], cam.right),
                  FAdd(cam.position[2], cam.bottom), FAdd(cam.position[2], cam.top))],
        attributes)

\* --------------------------------------------------------------- Scene ---
\* Light constructor
Light(color) ==
    [color |-> color, position |-> Vec3(0, 0, 0),
     attenuation |-> <<Frac(5, 100), Frac(2, 100), Frac(1, 100)>>,
     visible |-> TRUE]

\* The lights main.js adds, with the positions it gives them.
SceneLight(l) ==
    CASE l = 1 -> [Light(Vec3(255, 255, 255)) EXCEPT !.position = Vec3(0, 50, 100)]
      [] l = 2 -> [Light(Vec3(255, 0, 0)) EXCEPT !.position = Vec3(-50, 0, 0)]
      [] l = 3 -> [Light(Vec3(0, 255, 0)) EXCEPT !.position = Vec3(0, 0, 50)]
      [] l = 4 -> [Light(Vec3(0, 0, 255)) EXCEPT !.position = Vec3(50, 0, 0)]
      [] OTHER -> Light(Vec3(l, l, l))

\* An addToArray that reserves nine zeroed slots for an invisible light.
LightAddToArrayPadded(light, arr) ==
    IF light.visible
    THEN [arr |-> arr \o light.position \o light.color \o light.attenuation, ret |-> 1]
    ELSE [arr |-> arr \o [i \in 1..9 |-> FInt(0)], ret |-> 0]

\* Light.addToArray: [arr] the array after the call, [ret] what it returns.
LightAddToArray(light, arr) ==
    IF light.visible
    THEN [arr |-> arr \o light.position \o light.color \o light.attenuation, ret |-> 1]
    ELSE [arr |-> arr, ret |-> 0]

\* MeshInstance constructor; rotation counts the rotateY steps applied to
\* the identity quaternion.
MeshInstance(mesh, shader, material) ==
    [mesh |-> mesh, shader |-> shader, material |-> material,
     position |-> Vec3(0, 0, 0), scale |-> Vec3(1, 1, 1), rotation |-> 0,
     visible |-> TRUE]

\* The cube instances main.js adds to the scene (pirate, panel, celtic),
\* translated and scaled as main.js does.
SceneMesh(i) ==
    LET place(name, x) ==
            [MeshInstance("cube", "gBuffer", name)
                EXCEPT !.position = Vec3(x, 60, 0), !.scale = Vec3(20, 20, 20)]
    IN  CASE i = 1 -> place("pirate", 100)
          [] i = 2 -> place("panel", 0)
          [] i = 3 -> place("celtic", -100)
          [] OTHER -> place("wood", 0)

\* MeshInstance.setScale, setPosition, setBaseTexture
SetScale(inst, x, y, z) == [inst EXCEPT !.scale = <<x, y, z>>]
SetPosition(inst, x, y, z) == [inst EXCEPT !.position = <<x, y, z>>]
SetBaseTexture(mat, tex) == [mat EXCEPT !.textures["base"] = tex]

\* ------------------------------------------------------------ Renderer ---
GBufferTextures ==
    {<<"gBuffer", "position">>, <<"gBuffer", "albedo">>, <<"gBuffer", "normal">>,
     <<"gBuffer", "material">>}

\* new Texture('buffer', w, h)
BufferTextureCmds(tex, w, h) ==
    <<Cmd("createTexture", 0, tex, tex),
      Cmd("bindTexture", 0, "TEXTURE_2D", tex),
      Cmd("texImage2D", 0, "RGBA32F", <<w, h>>),
      Cmd("texParameteri", 0, "TEXTURE_MIN_FILTER", "NEAREST"),
      Cmd("texParameteri", 0, "TEXTURE_MAG_FILTER", "NEAREST"),
      Cmd("bindTexture", 0, "TEXTURE_2D", <<"null", "null">>)>>

\* The material init_gBuffer groups the four buffer textures in: albedo,
\* normal and material by the constructor, then base and position, both
\* the position texture.
GBufferMaterial ==
    MaterialAddTexture(
        MaterialAddTexture(Material("gBuffer"), <<"gBuffer", "position">>, "base"),
        <<"gBuffer", "position">>, "position")

\* The colour attachments init_gBuffer gives the framebuffer:
\* COLOR_ATTACHMENT0 + (i - 1) holds attachments[i].
GBufferAttachments(mat) ==
    <<mat.textures["base"], mat.textures["albedo"], mat.textures["normal"],
      mat.textures["material"]>>

\* Renderer.init_gBuffer, the GL calls.
InitGBufferCmds(win) ==
    BufferTextureCmds(<<"gBuffer", "position">>, win[1], win[2])
    \o BufferTextureCmds(<<"gBuffer", "albedo">>, win[1], win[2])
    \o BufferTextureCmds(<<"gBuffer", "normal">>, win[1], win[2])
    \o BufferTextureCmds(<<"gBuffer", "material">>, win[1], win[2])
    \o <<Cmd("createRenderbuffer", 0, "depth", "depth"),
         Cmd("bindRenderbuffer", 0, "RENDERBUFFER", "depth"),
         Cmd("renderbufferStorage", 0, "DEPTH_COMPONENT24", win),
         Cmd("bindRenderbuffer", 0, "RENDERBUFFER", "null"),
         Cmd("createFramebuffer", 0, "FBO", "FBO"),
         Cmd("bindFramebuffer", 0, "FRAMEBUFFER", "FBO"),
         Cmd("framebufferRenderbuffer", 0, "DEPTH_ATTACHMENT", "depth")>>
    \o [i \in 1..4 |->
          Cmd("framebufferTexture2D", 0, i - 1, GBufferAttachments(GBufferMaterial)[i])]
    \o <<Cmd("bindFramebuffer", 0, "FRAMEBUFFER", "null")>>

\* Renderer.init_gBuffer, the gBuffer object and the sizes of its storage.
InitGBuffer(win) ==
    [FBO |-> "FBO", depth |-> "depth", depthSize |-> win,
     attachments |-> GBufferAttachments(GBufferMaterial),
     buffers |-> <<0, 1, 2, 3>>]

\* The textures the resize loop reallocates: every value of the gBuffer
\* material's texture map.
ResizedTextures(mat) == {mat.textures[mat.roles[i]] : i \in 1..Len(mat.roles)}

\* Renderer.onWindowResize, the GL calls.
OnWindowResizeCmds(win, init, mat) ==
    <<Cmd("viewport", 0, <<0, 0>>, win)>>
    \o (IF ~init THEN <<>>
        ELSE <<Cmd("bindRenderbuffer", 0, "RENDERBUFFER", "depth"),
               Cmd("renderbufferStorage", 0, "DEPTH_COMPONENT24", win),
               Cmd("bindRenderbuffer", 0, "RENDERBUFFER", "null")>>
             \o Flatten([i \in 1..Len(mat.roles) |->
                   <<Cmd("bindTexture", 0, "TEXTURE_2D", mat.textures[mat.roles[i]]),
                     Cmd("texImage2D", 0, "RGBA32F", win)>>])
             \o <<Cmd("bindTexture", 0, "TEXTURE_2D", <<"null", "null">>)>>)

\* A resize that rebinds the textures without reallocating their storage.
OnWindowResizeTextureSizeKept(size, win, init, mat) == size

\* Renderer.onWindowResize, the storage sizes after it: the textures the
\* loop reached have the window's size, the others keep theirs.
OnWindowResizeTextureSize(size, win, init, mat) ==
    [t \in DOMAIN size |->
        IF init /\ t \in ResizedTextures(mat) THEN win ELSE size[t]]

\* --------------------------------------------------------------- state ---
VARIABLES
    phase,          \* "load": main.js has not run; "ready": it has run;
                    \* "running": the Animator exists; "failed": main.js threw
    env,            \* what the host answers: context, extension, shader builds
    alerts,         \* the messages shown with alert()
    console,        \* the diagnostics written with console.log
    window,         \* <<innerWidth, innerHeight>>
    resizePending,  \* the window changed size and no resize event was handled since
    canvas,         \* <<canvas.width, canvas.height>>
    viewport,       \* the size last given to GL.viewport
    rendererInit,   \* Renderer.init
    shaders,        \* Renderer.shaders
    textureSize,    \* backing-store size of each buffer texture
    gBuffer,        \* Renderer.gBuffer, with the size of its depth storage
    gMat,           \* Renderer.materials.gBuffer
    attributes,     \* Renderer.attributes, the shared attribute set
    camera,         \* Renderer.camera
    postCamera,     \* Renderer.postCamera
    meshes,         \* Scene.meshes
    lights,         \* Scene.lights
    controls,       \* main.js controls
    animator,       \* the Animator: theta in quarter turns
    pendingFrames,  \* frame callbacks requested and not yet run
    cmds,           \* the GL calls the last handler issued, in order
    lastOp,         \* the handler that ran last: "main", "frame", "window",
                    \* "gui", "resize", or "resizeAgain" for a resize event
                    \* handled right after another one, "load", ...
    glUnits,        \* the context's texture units: the active one, and the
                    \* texture bound to TEXTURE_2D on each
    images,         \* what each image texture holds: "none" before it is
                    \* created, "placeholder", "image"
    userMesh,       \* Mesh.buffers of a Mesh the caller fills with addBuffer
    obj,            \* an OBJ document, the text it is written as, and what
                    \* loadOBJ returned for the text
    loading         \* the image textures whose Image has its src and has not
                    \* fired its load event

vars == <<phase, env, alerts, console, window, resizePending, canvas, viewport,
          rendererInit, shaders, textureSize, gBuffer, gMat, attributes, camera,
          postCamera, meshes, lights, controls, animator, pendingFrames, cmds,
          lastOp, glUnits, images, userMesh, obj, loading>>

\* ------------------------------------------------- the context's textures ---
\* The texture units the model follows (MAX_COMBINED_TEXTURE_IMAGE_UNITS is
\* at least 32; Material.bind uses 0..4).
TextureUnits == 0..7
NullTexture == <<"null", "null">>

\* The image textures createMaterial makes for the materials of the scene.
ImageTextures ==
    {<<SceneMesh(m).material, r>> : m \in 1..NumMeshes, r \in {"albedo", "normal", "material"}}

\* The texture calls among a handler's GL calls.
TextureOps == {"activeTexture", "bindTexture", "texImage2D"}

\* The unit that is active when call j of cs is issued: the one the last
\* activeTexture before it selected.
RECURSIVE ActiveBefore(_, _, _)
ActiveBefore(units, cs, j) ==
    IF j <= 1 THEN units.active
    ELSE IF cs[j - 1].op = "activeTexture" THEN cs[j - 1].b
    ELSE ActiveBefore(units, cs, j - 1)

\* The texture bound on unit u when call j of cs is issued: the one the last
\* bindTexture before it bound while u was active.
RECURSIVE BoundBefore(_, _, _, _)
BoundBefore(units, cs, u, j) ==
    IF j <= 1 THEN units.bound[u]
    ELSE IF cs[j - 1].op = "bindTexture" /\ ActiveBefore(units, cs, j - 1) = u
    THEN cs[j - 1].b
    ELSE BoundBefore(units, cs, u, j - 1)

\* What image texture t holds after the first j calls of cs: texImage2D
\* writes the texture bound on the active unit, the 1x1 placeholder pixels
\* (a = "RGBA"), the decoded image (a = "image") or the empty storage of a
\* buffer texture.
RECURSIVE ContentAfter(_, _, _, _, _)
ContentAfter(units, imgs, cs, t, j) ==
    IF j = 0 THEN imgs[t]
    ELSE IF /\ cs[j].op = "texImage2D"
            /\ BoundBefore(units, cs, ActiveBefore(units, cs, j), j) = t
    THEN (CASE cs[j].a = "image" -> "image"
            [] cs[j].a = "RGBA" -> "placeholder"
            [] OTHER -> "buffer")
    ELSE ContentAfter(units, imgs, cs, t, j - 1)

\* Every handler leaves the units and the contents as its GL calls made them.
TrackTextures ==
    \E calls \in {SelectSeq(cmds', LAMBDA c : c.op \in TextureOps)} :
        /\ glUnits' = [active |-> ActiveBefore(glUnits, calls, Len(calls) + 1),
                       bound |-> [u \in TextureUnits |->
                                     BoundBefore(glUnits, calls, u, Len(calls) + 1)]]
        /\ images' = [t \in ImageTextures |->
                         ContentAfter(glUnits, images, calls, t, Len(calls))]

\* The quads the Renderer constructor creates.
BufferQuad == MeshInstance("quad", "passthrough", "gBuffer")
DefferedQuad == MeshInstance("quad", "deferred", "gBuffer")

\* --------------------------------------------------- Renderer.renderScene ---
\* gBuffer.bind and the set-up of the geometry pass.
GeometrySetupCmds(gbuf) ==
    <<Cmd("bindFramebuffer", 0, "FRAMEBUFFER", gbuf.FBO),
      Cmd("drawBuffers", 0, gbuf.buffers, gbuf.buffers),
      Cmd("clearColor", 0, <<0, 0, 0, 1>>, <<0, 0, 0, 1>>),
      Cmd("enable", 0, "DEPTH_TEST", "DEPTH_TEST"),
      Cmd("enable", 0, "CULL_FACE", "CULL_FACE"),
      Cmd("cullFace", 0, "BACK", "BACK"),
      Cmd("clear", 0, "COLOR_BUFFER_BIT", "DEPTH_BUFFER_BIT")>>

\* A loop turn that binds and draws the mesh whatever its visible flag says.
SceneMeshCmdsNoSkip(mesh, m, shader, att) ==
    MeshInstanceBind(mesh, m, Material(mesh.material), shader, att)
    \o MeshInstanceDraw(mesh, m)

\* One turn of the loop over scene.meshes: an invisible mesh is skipped.
SceneMeshCmds(mesh, m, shader, att) ==
    IF ~mesh.visible
    THEN <<>>
    ELSE MeshInstanceBind(mesh, m, Material(mesh.material), shader, att)
         \o MeshInstanceDraw(mesh, m)

\* The loop over scene.meshes.
GeometryPassCmds(ms, shs, att) ==
    Flatten([m \in 1..Len(ms) |-> SceneMeshCmds(ms[m], m, shs[ms[m].shader], att)])

\* A lighting set-up that leaves the G-Buffer bound as the render target.
LightingSetupCmdsNoUnbind ==
    <<Cmd("clear", 0, "COLOR_BUFFER_BIT", "DEPTH_BUFFER_BIT"),
      Cmd("disable", 0, "DEPTH_TEST", "DEPTH_TEST"),
      Cmd("disable", 0, "CULL_FACE", "CULL_FACE")>>

\* The set-up of the lighting pass.
LightingSetupCmds ==
    <<Cmd("bindFramebuffer", 0, "FRAMEBUFFER", "null"),
      Cmd("clear", 0, "COLOR_BUFFER_BIT", "DEPTH_BUFFER_BIT"),
      Cmd("disable", 0, "DEPTH_TEST", "DEPTH_TEST"),
      Cmd("disable", 0, "CULL_FACE", "CULL_FACE")>>

\* The header renderScene starts lightArr with:
\* [0, (lightAmbience * 0.1 * 4)^2, (1 - lightIntensity) * 0.1 + 0.001].
LightArrayHeader(att) ==
    LET a == FMul(FMul(att.lightAmbience, Frac(1, 10)), FInt(4))
    IN  <<FInt(0), FMul(a, a),
          FAdd(FMul(FSub(FInt(1), att.lightIntensity), Frac(1, 10)), Frac(1, 1000))>>

\* The loop over scene.lights: count adds up what addToArray returns.
RECURSIVE LightLoop(_, _, _, _)
LightLoop(ls, l, arr, count) ==
    IF l > Len(ls)
    THEN [arr |-> arr, count |-> count]
    ELSE LET r == LightAddToArray(ls[l], arr)
         IN  LightLoop(ls, l + 1, r.arr, count + r.ret)

\* A light array whose element 0 is the number of visible lights itself.
LightArrayPlainCount(ls, att) ==
    LET r == LightLoop(ls, 1, LightArrayHeader(att), 0)
    IN  [r.arr EXCEPT ![1] = FInt(r.count)]

\* The light array renderScene hands to the 'lights' uniform.
LightArray(ls, att) ==
    LET r == LightLoop(ls, 1, LightArrayHeader(att), 0)
    IN  [r.arr EXCEPT ![1] = FInt(r.count * 3)]

\* A lighting pass that draws the quad at the scale it was built with.
LightingPassCmdsUnscaled(win, mat, shs, ls, att) ==
    MeshInstanceBind(DefferedQuad, DefQuad, mat, shs[DefferedQuad.shader], att)
    \o GLShaderSetUniformFloat3(shs["deferred"], DefQuad, LightArray(ls, att), "lights")
    \o MeshInstanceDraw(DefferedQuad, DefQuad)

\* The lighting quad: scaled to the window, centred, bound, lit, drawn.
LightingPassCmds(win, mat, shs, ls, att) ==
    LET quad == SetPosition(SetScale(DefferedQuad, FInt(win[1]), FInt(win[2]), FInt(1)),
                            FInt(0), FInt(0), FInt(0))
    IN  MeshInstanceBind(quad, DefQuad, mat, shs[quad.shader], att)
        \o GLShaderSetUniformFloat3(shs["deferred"], DefQuad, LightArray(ls, att), "lights")
        \o MeshInstanceDraw(quad, DefQuad)

\* An overlay loop that passes over the albedo key as well as the base key.
RECURSIVE OverlayLoopNoAlbedo(_, _, _, _, _, _, _, _)
OverlayLoopNoAlbedo(keys, t, mat, quad, dx, dy, shs, att) ==
    IF t > Len(keys)
    THEN [mat |-> mat, cmds |-> <<>>]
    ELSE IF keys[t] \in {"base", "albedo"}
    THEN OverlayLoopNoAlbedo(keys, t + 1, mat, quad, dx, dy, shs, att)
    ELSE LET m == SetBaseTexture(mat, mat.textures[keys[t]])
             q == SetPosition(quad, dx, dy, FInt(0))
             rest == OverlayLoopNoAlbedo(keys, t + 1, m, quad, dx,
                                         FSub(dy, quad.scale[2]), shs, att)
         IN  [mat |-> rest.mat,
              cmds |-> MeshInstanceBind(q, BufQuad, m, shs[q.shader], att)
                       \o MeshInstanceDraw(q, BufQuad) \o rest.cmds]

\* The debug overlay's loop over the gBuffer material's keys, from key t on:
\* [mat] the material after it, [cmds] the GL calls.
RECURSIVE OverlayLoop(_, _, _, _, _, _, _, _)
OverlayLoop(keys, t, mat, quad, dx, dy, shs, att) ==
    IF t > Len(keys)
    THEN [mat |-> mat, cmds |-> <<>>]
    ELSE IF keys[t] = "base"
    THEN OverlayLoop(keys, t + 1, mat, quad, dx, dy, shs, att)
    ELSE LET m == SetBaseTexture(mat, mat.textures[keys[t]])
             q == SetPosition(quad, dx, dy, FInt(0))
             rest == OverlayLoop(keys, t + 1, m, quad, dx, FSub(dy, quad.scale[2]),
                                 shs, att)
         IN  [mat |-> rest.mat,
              cmds |-> MeshInstanceBind(q, BufQuad, m, shs[q.shader], att)
                       \o MeshInstanceDraw(q, BufQuad) \o rest.cmds]

\* An overlay whose first quad is centred on the top edge of the window.
OverlayFromTopEdge(win, mat, shs, att) ==
    IF ~att.drawGbuffer
    THEN [mat |-> mat, cmds |-> <<>>]
    ELSE LET height == FDiv(FInt(win[2]), FInt(4))
             width == FMul(height, FDiv(FInt(win[1]), FInt(win[2])))
             dx == FAdd(FDiv(FInt(win[1]), FInt(-2)), FHalf(width))
             dy == FHalf(FInt(win[2]))
         IN  OverlayLoop(mat.roles, 1, mat, SetScale(BufferQuad, width, height, FInt(1)),
                         dx, dy, shs, att)

\* An overlay that goes through the material's keys from the last to the
\* first.
OverlayBackwards(win, mat, shs, att) ==
    IF ~att.drawGbuffer
    THEN [mat |-> mat, cmds |-> <<>>]
    ELSE LET height == FDiv(FInt(win[2]), FInt(4))
             width == FMul(height, FDiv(FInt(win[1]), FInt(win[2])))
             dx == FAdd(FDiv(FInt(win[1]), FInt(-2)), FHalf(width))
             dy == FSub(FHalf(FInt(win[2])), FHalf(height))
         IN  OverlayLoop([i \in 1..Len(mat.roles) |-> mat.roles[Len(mat.roles) + 1 - i]],
                         1, mat, SetScale(BufferQuad, width, height, FInt(1)),
                         dx, dy, shs, att)

\* The debug overlay: quads a quarter of the window high.
Overlay(win, mat, shs, att) ==
    IF ~att.drawGbuffer
    THEN [mat |-> mat, cmds |-> <<>>]
    ELSE LET height == FDiv(FInt(win[2]), FInt(4))
             width == FMul(height, FDiv(FInt(win[1]), FInt(win[2])))
             dx == FAdd(FDiv(FInt(win[1]), FInt(-2)), FHalf(width))
             dy == FSub(FHalf(FInt(win[2])), FHalf(height))
         IN  OverlayLoop(mat.roles, 1, mat, SetScale(BufferQuad, width, height, FInt(1)),
                         dx, dy, shs, att)

\* Renderer.renderScene: the objects after the frame and the GL calls.
RenderScene(win, gbuf, mat, shs, ms, ls, cam, post, att) ==
    LET main == PerspectiveUpdate(cam, att)
        geometry == GeometryPassCmds(ms, shs, main[2])
        ortho == OrthographicUpdate(post, main[2])
        lit == [ortho[2] EXCEPT !.cameraPosition = main[1].position]
        overlay == Overlay(win, mat, shs, lit)
    IN  [camera |-> main[1], postCamera |-> ortho[1], attributes |-> lit,
         gMat |-> overlay.mat,
         cmds |-> GeometrySetupCmds(gbuf) \o geometry \o LightingSetupCmds
                  \o LightingPassCmds(win, mat, shs, ls, lit) \o overlay.cmds]

\* ---------------------------------------------------- Renderer constructor ---
\* Renderer.init_shaders: the four programs in order; the first build that
\* throws ends it.  [threw], [cmds], [log], [shaders].
RECURSIVE InitShaders(_, _, _)
InitShaders(outcomes, i, acc) ==
    IF i > Len(ShaderNames)
    THEN [acc EXCEPT !.shaders["deferred"] =
            GLShaderAddUniform(acc.shaders["deferred"], "lights",
                               outcomes["deferred"] = "ok")]
    ELSE LET name == ShaderNames[i]
             built == GLShaderInit(name, outcomes[name])
             next == [threw |-> built.threw, cmds |-> acc.cmds \o built.cmds,
                      log |-> acc.log \o built.log,
                      shaders |-> IF built.threw THEN acc.shaders
                                  ELSE [acc.shaders EXCEPT ![name] = built.object]]
         IN  IF built.threw THEN next ELSE InitShaders(outcomes, i + 1, next)

\* A program no GLShader was built for.
NoShader ==
    [program |-> "null",
     locations |-> [k \in {AttribKeys[i] : i \in 1..Len(AttribKeys)} |-> -1],
     uniforms |-> [k \in {UniformKeys[i] : i \in 1..Len(UniformKeys)} |-> "null"]]

\* Mesh.addBuffer, the GL calls.
AddBufferCall(b) ==
    LET target == IF b.name = "index" THEN "ELEMENT_ARRAY_BUFFER" ELSE "ARRAY_BUFFER"
    IN  <<Cmd("createBuffer", 0, target, b.id),
          Cmd("bindBuffer", 0, target, b.id),
          Cmd("bufferData", 0, target, b.id)>>

\* Mesh.addBuffer for every buffer of a geometry.
AddBufferCmds(geometry) ==
    Flatten([i \in 1..Len(MeshBuffers(geometry)) |-> AddBufferCall(MeshBuffers(geometry)[i])])

\* this.buffers[name] = buff: a new key goes last, an existing key keeps its
\* place and gets the new buffer.
PutBuffer(buffers, b) ==
    IF \E i \in 1..Len(buffers) : buffers[i].name = b.name
    THEN [i \in 1..Len(buffers) |-> IF buffers[i].name = b.name THEN b ELSE buffers[i]]
    ELSE Append(buffers, b)

\* new Texture(path): the 1x1 opaque blue placeholder.
ImageTextureCmds(tex) ==
    <<Cmd("createTexture", 0, tex, tex),
      Cmd("bindTexture", 0, "TEXTURE_2D", tex),
      Cmd("texImage2D", 0, "RGBA", <<1, 1>>)>>

\* Renderer.createMaterial
CreateMaterialCmds(name) ==
    ImageTextureCmds(<<name, "albedo">>) \o ImageTextureCmds(<<name, "normal">>)
    \o ImageTextureCmds(<<name, "material">>)

\* The attribute set the constructor starts with; the camera entries are
\* filled by the first Camera.update.
InitialAttributes ==
    [drawGbuffer |-> TRUE, lightAmbience |-> Frac(5, 10), lightIntensity |-> Frac(8, 10),
     projectionMatrix |-> Identity, viewMatrix |-> Identity,
     cameraMatrix |-> Invert(Identity), cameraPosition |-> Vec3(0, 0, 0)]

\* Renderer.init_Cameras: [1] camera, [2] attributes, [3] postCamera.
InitCameras(win, att) ==
    LET main == CameraUpdate(PerspectiveCamera(60, 1, 16000, win), att)
    IN  <<main[1], main[2], OrthographicCamera(FInt(win[1]), FInt(win[2]), win)>>

\* main.js up to the registration of the DOMContentLoaded listener: the
\* Renderer constructor, the orbit controller, the materials, the geometry,
\* the scene.  An exception that leaves the constructor ends the script.
Main ==
    /\ UNCHANGED <<userMesh, obj>>
    /\ loading' = IF env.context /\ ~InitShaders(env.shaders, 1,
                        [threw |-> FALSE, cmds |-> <<>>, log |-> <<>>,
                         shaders |-> [s \in ShaderSet |-> NoShader]]).threw
                   THEN ImageTextures ELSE loading
    /\ phase = "load"
    /\ lastOp' = "main"
    /\ UNCHANGED <<env, window, resizePending, controls, animator, pendingFrames>>
    /\ LET built == InitShaders(env.shaders, 1,
                        [threw |-> FALSE, cmds |-> <<>>, log |-> <<>>,
                         shaders |-> [s \in ShaderSet |-> NoShader]])
           \* inside try: getContext, getParameter, getExtension,
           \* onWindowResize (init is false), pixelStorei
           tried == IF env.context
                    THEN <<Cmd("getParameter", 0, "SHADING_LANGUAGE_VERSION", "null"),
                           Cmd("getExtension", 0, "EXT_color_buffer_float", "null")>>
                         \o OnWindowResizeCmds(window, FALSE, GBufferMaterial)
                         \o <<Cmd("pixelStorei", 0, "UNPACK_FLIP_Y_WEBGL", "true")>>
                    ELSE <<>>
           cams == InitCameras(window, InitialAttributes)
       IN  /\ alerts' = IF env.context THEN alerts
                        ELSE Append(alerts, "WebGL not available")
           /\ canvas' = IF env.context THEN window ELSE canvas
           /\ viewport' = IF env.context THEN window ELSE viewport
           /\ IF ~env.context
              THEN \* GL is null: init_shaders throws at the first GL call
                   /\ phase' = "failed"
                   /\ cmds' = <<>>
                   /\ UNCHANGED <<console, rendererInit, shaders, textureSize, gBuffer,
                                  gMat, attributes, camera, postCamera, meshes, lights>>
              ELSE IF built.threw
              THEN /\ phase' = "failed"
                   /\ cmds' = tried \o built.cmds
                   /\ console' = console \o built.log
                   /\ UNCHANGED <<rendererInit, shaders, textureSize, gBuffer, gMat,
                                  attributes, camera, postCamera, meshes, lights>>
              ELSE /\ phase' = "ready"
                   /\ console' = console \o built.log
                   /\ shaders' = built.shaders
                   /\ textureSize' = [t \in GBufferTextures |-> window]
                   /\ gBuffer' = InitGBuffer(window)
                   /\ gMat' = GBufferMaterial
                   /\ camera' = AddOrbitController(cams[1], 300)
                   /\ attributes' = cams[2]
                   /\ postCamera' = cams[3]
                   /\ rendererInit' = TRUE
                   /\ meshes' = [m \in 1..NumMeshes |-> SceneMesh(m)]
                   /\ lights' = [l \in 1..NumLights |-> SceneLight(l)]
                   /\ cmds' = tried \o built.cmds \o InitGBufferCmds(window)
                              \o AddBufferCmds("quad")
                              \o Flatten([m \in 1..NumMeshes |->
                                    CreateMaterialCmds(SceneMesh(m).material)])
                              \o AddBufferCmds("cube")
    /\ TrackTextures

\* ------------------------------------------------------------ Animator ---
\* Largest theta, in quarter turns, the model follows the animation to.
MaxTheta == 1

\* cos and sin of q quarter turns.
CosQ(q) == CASE q % 4 = 0 -> 1 [] q % 4 = 2 -> -1 [] OTHER -> 0
SinQ(q) == CASE q % 4 = 1 -> 1 [] q % 4 = 3 -> -1 [] OTHER -> 0

\* The positions animate gives lights[1], lights[2], lights[3] (0-based),
\* here lights 2, 3, 4; d = 200.
OrbitingLights(ls, t) ==
    [l \in 1..Len(ls) |->
        CASE l = 2 -> [ls[l] EXCEPT !.position = Vec3(200 * CosQ(t), 50, 200 * SinQ(t))]
          [] l = 3 -> [ls[l] EXCEPT !.position = Vec3(0, 200 * CosQ(t), 200 * SinQ(t))]
          [] l = 4 -> [ls[l] EXCEPT !.position = Vec3(200 * CosQ(t), -50, -200 * SinQ(t))]
          [] OTHER -> ls[l]]

\* The rotateY calls of animate: pirate, panel and celtic turn by rot, the
\* spheres by -rot; steps is 0 when delta is 0.
RotatedMeshes(ms, steps) ==
    [m \in 1..Len(ms) |->
        [ms[m] EXCEPT !.rotation =
            IF ms[m].material \in {"pirate", "panel", "celtic"} THEN @ + steps
            ELSE @ - steps]]

\* An animate whose delta leaves controls.animateOn out.
AnimateBodyRegardless(moving) ==
    LET steps == IF moving THEN 1 ELSE 0
        theta == animator.theta + steps
        ls == OrbitingLights(lights, theta)
        ms == RotatedMeshes(meshes, steps)
        frame == RenderScene(window, gBuffer, gMat, shaders, ms, ls, camera,
                             postCamera, attributes)
    IN  /\ theta <= MaxTheta
        /\ animator' = [animator EXCEPT !.theta = theta]
        /\ lights' = ls
        /\ meshes' = ms
        /\ camera' = frame.camera
        /\ postCamera' = frame.postCamera
        /\ attributes' = frame.attributes
        /\ gMat' = frame.gMat
        /\ cmds' = frame.cmds
        /\ lastOp' = "frame"
        /\ UNCHANGED <<env, alerts, console, window, resizePending, canvas, viewport,
                       rendererInit, shaders, textureSize, gBuffer, controls>>

\* Animator.animate(timeStamp): advance the animation, render, request the
\* next frame callback.  moving says whether timeStamp is later than
\* deltaPrev; delta is positive only then and with animateOn.
AnimateBody(moving) ==
    LET steps == IF moving /\ controls.animateOn THEN 1 ELSE 0
        theta == animator.theta + steps
        ls == OrbitingLights(lights, theta)
        ms == RotatedMeshes(meshes, steps)
        frame == RenderScene(window, gBuffer, gMat, shaders, ms, ls, camera,
                             postCamera, attributes)
    IN  /\ theta <= MaxTheta
        /\ animator' = [animator EXCEPT !.theta = theta]
        /\ lights' = ls
        /\ meshes' = ms
        /\ camera' = frame.camera
        /\ postCamera' = frame.postCamera
        /\ attributes' = frame.attributes
        /\ gMat' = frame.gMat
        /\ cmds' = frame.cmds
        /\ lastOp' = "frame"
        /\ UNCHANGED <<env, alerts, console, window, resizePending, canvas, viewport,
                       rendererInit, shaders, textureSize, gBuffer, controls>>

\* The DOMContentLoaded listener: new Animator(), whose constructor calls
\* animate(0).
DOMContentLoaded ==
    /\ UNCHANGED <<userMesh, obj, loading>>
    /\ phase = "ready"
    /\ phase' = "running"
    /\ pendingFrames' = pendingFrames + 1
    /\ AnimateBody(FALSE)
    /\ TrackTextures

\* A frame callback: animate(timeStamp) run by the host.
Animate ==
    /\ UNCHANGED <<userMesh, obj, loading>>
    /\ phase = "running"
    /\ pendingFrames > 0
    /\ pendingFrames' = (pendingFrames - 1) + 1
    /\ phase' = phase
    /\ AnimateBody(TRUE)
    /\ TrackTextures

\* ----------------------------------------------------------- listeners ---
Listening == phase \in {"ready", "running"}

\* The host changes the window's size; the resize event comes later.
WindowChange ==
    /\ UNCHANGED <<userMesh, obj, loading>>
    /\ phase # "load"
    /\ \E w \in WinSizes \ {window} : window' = w
    /\ resizePending' = TRUE
    /\ cmds' = <<>>
    /\ lastOp' = "window"
    /\ UNCHANGED <<phase, env, alerts, console, canvas, viewport, rendererInit, shaders,
                   textureSize, gBuffer, gMat, attributes, camera, postCamera, meshes,
                   lights, controls, animator, pendingFrames>>
    /\ TrackTextures

\* The resize listener the Renderer constructor registers:
\* Renderer.onWindowResize, camera.onWindowResize, postCamera.onWindowResize.
OnResize ==
    /\ UNCHANGED <<userMesh, obj, loading>>
    /\ Listening
    /\ canvas' = window
    /\ viewport' = window
    /\ gBuffer' = IF rendererInit THEN [gBuffer EXCEPT !.depthSize = window] ELSE gBuffer
    /\ textureSize' = OnWindowResizeTextureSize(textureSize, window, rendererInit, gMat)
    /\ camera' = PerspectiveOnWindowResize(camera, window)
    /\ postCamera' = OrthographicOnWindowResize(postCamera, window)
    /\ resizePending' = FALSE
    /\ cmds' = OnWindowResizeCmds(window, rendererInit, gMat)
    /\ lastOp' = IF lastOp \in {"resize", "resizeAgain"} THEN "resizeAgain" ELSE "resize"
    /\ UNCHANGED <<phase, env, alerts, console, window, rendererInit, shaders, gMat,
                   attributes, meshes, lights, controls, animator, pendingFrames>>
    /\ TrackTextures

\* The control panel: the 'visible' box of a mesh.
ToggleMesh ==
    /\ UNCHANGED <<userMesh, obj, loading>>
    /\ Listening
    /\ \E m \in 1..NumMeshes : meshes' = [meshes EXCEPT ![m].visible = ~@]
    /\ cmds' = <<>>
    /\ lastOp' = "gui"
    /\ UNCHANGED <<phase, env, alerts, console, window, resizePending, canvas, viewport,
                   rendererInit, shaders, textureSize, gBuffer, gMat, attributes, camera,
                   postCamera, lights, controls, animator, pendingFrames>>
    /\ TrackTextures

\* The control panel: the 'visible' box of a light.
ToggleLight ==
    /\ UNCHANGED <<userMesh, obj, loading>>
    /\ Listening
    /\ \E l \in 1..NumLights : lights' = [lights EXCEPT ![l].visible = ~@]
    /\ cmds' = <<>>
    /\ lastOp' = "gui"
    /\ UNCHANGED <<phase, env, alerts, console, window, resizePending, canvas, viewport,
                   rendererInit, shaders, textureSize, gBuffer, gMat, attributes, camera,
                   postCamera, meshes, controls, animator, pendingFrames>>
    /\ TrackTextures

\* The control panel: the 'G-Buffer' box.
ToggleDrawGbuffer ==
    /\ UNCHANGED <<userMesh, obj, loading>>
    /\ Listening
    /\ attributes' = [attributes EXCEPT !.drawGbuffer = ~@]
    /\ cmds' = <<>>
    /\ lastOp' = "gui"
    /\ UNCHANGED <<phase, env, alerts, console, window, resizePending, canvas, viewport,
                   rendererInit, shaders, textureSize, gBuffer, gMat, camera, postCamera,
                   meshes, lights, controls, animator, pendingFrames>>
    /\ TrackTextures

\* The control panel: the animation 'On' box.
ToggleAnimateOn ==
    /\ UNCHANGED <<userMesh, obj, loading>>
    /\ Listening
    /\ controls' = [controls EXCEPT !.animateOn = ~@]
    /\ cmds' = <<>>
    /\ lastOp' = "gui"
    /\ UNCHANGED <<phase, env, alerts, console, window, resizePending, canvas, viewport,
                   rendererInit, shaders, textureSize, gBuffer, gMat, attributes, camera,
                   postCamera, meshes, lights, animator, pendingFrames>>
    /\ TrackTextures

\* ------------------------------------------------- a mesh of the caller ---
\* Most buffer roles the caller's mesh is given.
MaxRoles == 3

\* The role names the caller uses: the four of main.js's meshes' roles that
\* the quads use or not, 'colour' (a key of locations no shader source
\* declares), 'index', and 'weights' (no key of locations).
RoleNames == {"position", "uv", "colour", "index", "weights"}
ItemSizes == {2, 3}
UserOwner == NumMeshes + 3

\* mesh.addBuffer(vertices, name, size) with 6 numbers.
AddBuffer ==
    /\ Listening
    /\ \E name \in RoleNames, size \in ItemSizes :
          LET b == Buffer("user", name, size, 6 \div size)
          IN  /\ Len(PutBuffer(userMesh, b)) <= MaxRoles
              /\ userMesh' = PutBuffer(userMesh, b)
              /\ cmds' = AddBufferCall(b)
    /\ lastOp' = "addBuffer"
    /\ UNCHANGED <<phase, env, alerts, console, window, resizePending, canvas, viewport,
                   rendererInit, shaders, textureSize, gBuffer, gMat, attributes, camera,
                   postCamera, meshes, lights, controls, animator, pendingFrames, obj,
                   loading>>
    /\ TrackTextures

\* new MeshInstance(mesh, shader, material).bind(renderer.attributes) for the
\* caller's mesh and any of the renderer's shaders.
BindUserMesh ==
    /\ Listening
    /\ \E s \in ShaderSet :
          cmds' = MeshInstanceBindBuffers(MeshInstance("user", s, SceneMesh(1).material),
                                         UserOwner, userMesh,
                                         Material(SceneMesh(1).material), shaders[s],
                                         attributes)
    /\ lastOp' = "bind"
    /\ UNCHANGED <<phase, env, alerts, console, window, resizePending, canvas, viewport,
                   rendererInit, shaders, textureSize, gBuffer, gMat, attributes, camera,
                   postCamera, meshes, lights, controls, animator, pendingFrames,
                   userMesh, obj, loading>>
    /\ TrackTextures

\* ------------------------------------------------ the orbit controller ---
\* The yaw is not bounded by the code; the inputs are kept to those that
\* leave it within this many degrees of zero.
MaxYaw == 90

\* The presses, and the touch starts, one controller is given at most: each
\* one registers listeners that stay.
MaxListeners == 2

\* Canvas coordinates of the pointer and of the first touch.
PointerCoords == {FInt(0), FInt(450)}
TouchCounts == {1, 2}
\* event.deltaY of a wheel event.
WheelDeltas == {FInt(-1500), FInt(1500)}
\* Arguments of the constructor and of the setters.
BoomLengths == {50, 300, 600}
PitchLimits == {FInt(30), FInt(100)}
Speeds == {Frac(2, 10), FInt(1)}
Pitches == {FInt(-100), FInt(100)}
Yaws == {FInt(0)}

\* A handler or a method of the main camera's controller that leaves the
\* controller as o.
OrbitStep(o) ==
    /\ Listening
    /\ camera.hasOrbit
    /\ FLe(FInt(-MaxYaw), o.yaw) /\ FLe(o.yaw, FInt(MaxYaw))
    /\ o.dragListeners <= MaxListeners /\ o.touchListeners <= MaxListeners
    /\ camera' = [camera EXCEPT !.orbit = o]
    /\ cmds' = <<>>
    /\ lastOp' = "orbit"
    /\ UNCHANGED <<phase, env, alerts, console, window, resizePending, canvas, viewport,
                   rendererInit, shaders, textureSize, gBuffer, gMat, attributes,
                   postCamera, meshes, lights, controls, animator, pendingFrames,
                   userMesh, obj, loading>>
    /\ TrackTextures

\* camera.addOrbitController(canvas, boomLength) once more.
NewOrbitController ==
    /\ \E b \in BoomLengths : OrbitStep(OrbitController(b))

MouseDown ==
    /\ \E x, y \in PointerCoords : OrbitStep(OnMouseDown(camera.orbit, x, y))

MouseMove ==
    /\ camera.orbit.dragListeners > 0
    /\ \E x, y \in PointerCoords :
          OrbitStep(Dispatch(camera.orbit, "mousemove", 1, x, y,
                             camera.orbit.dragListeners))

MouseUp ==
    /\ camera.orbit.dragListeners > 0
    /\ OrbitStep(Dispatch(camera.orbit, "mouseup", 1, FInt(0), FInt(0),
                          camera.orbit.dragListeners))

TouchStart ==
    /\ \E n \in TouchCounts, x, y \in PointerCoords :
          OrbitStep(OnTouchStart(camera.orbit, n, x, y))

TouchMove ==
    /\ camera.orbit.touchListeners > 0
    /\ \E n \in TouchCounts, x, y \in PointerCoords :
          OrbitStep(Dispatch(camera.orbit, "touchmove", n, x, y,
                             camera.orbit.touchListeners))

TouchEnd ==
    /\ camera.orbit.touchListeners > 0
    /\ \E type \in {"touchend", "touchcancel"} :
          OrbitStep(Dispatch(camera.orbit, type, 0, FInt(0), FInt(0),
                             camera.orbit.touchListeners))

Wheel ==
    /\ \E d \in WheelDeltas : OrbitStep(HandleZoom(camera.orbit, d))

CallSetRotations ==
    /\ \E p \in Pitches, y \in Yaws : OrbitStep(SetRotations(camera.orbit, p, y))

CallSetPitchMax ==
    /\ \E l \in PitchLimits : OrbitStep(SetPitchMax(camera.orbit, l))

CallSetSpeed ==
    /\ \E v \in Speeds : OrbitStep(SetSpeed(camera.orbit, v, v))

CallSetBoomLength ==
    /\ \E b \in BoomLengths : OrbitStep(SetBoomLength(camera.orbit, FInt(b)))

\* ------------------------------------------- the orthographic camera ---
\* The widths and heights a caller requests.
OrthoSizes == {FInt(2), FInt(6), Frac(7, 2)}

\* renderer.postCamera.setOrthographic(width, height)
CallSetOrthographic ==
    /\ Listening
    /\ \E width, height \in OrthoSizes :
          postCamera' = SetOrthographic(postCamera, width, height, window)
    /\ cmds' = <<>>
    /\ lastOp' = "setOrthographic"
    /\ UNCHANGED <<phase, env, alerts, console, window, resizePending, canvas, viewport,
                   rendererInit, shaders, textureSize, gBuffer, gMat, attributes, camera,
                   meshes, lights, controls, animator, pendingFrames, userMesh, obj,
                   loading>>
    /\ TrackTextures

\* ----------------------------------------------------- image loading ---
\* A callback that writes the image without binding its texture first.
OnLoadCmdsNoBind(tex) ==
    <<Cmd("texImage2D", 0, "image", tex),
      Cmd("generateMipmap", 0, "TEXTURE_2D", "TEXTURE_2D"),
      Cmd("texParameteri", 0, "TEXTURE_MIN_FILTER", "LINEAR_MIPMAP_LINEAR"),
      Cmd("texParameteri", 0, "TEXTURE_MAG_FILTER", "LINEAR"),
      Cmd("bindTexture", 0, "TEXTURE_2D", NullTexture)>>

\* img.onload of the Texture constructor, the GL calls.
OnLoadCmds(tex) ==
    <<Cmd("bindTexture", 0, "TEXTURE_2D", tex),
      Cmd("texImage2D", 0, "image", tex),
      Cmd("generateMipmap", 0, "TEXTURE_2D", "TEXTURE_2D"),
      Cmd("texParameteri", 0, "TEXTURE_MIN_FILTER", "LINEAR_MIPMAP_LINEAR"),
      Cmd("texParameteri", 0, "TEXTURE_MAG_FILTER", "LINEAR"),
      Cmd("bindTexture", 0, "TEXTURE_2D", NullTexture)>>

\* The load event of one image: the host runs the callback as a task of its
\* own, once, after the image arrived; an image that never arrives never
\* fires it.
OnLoad ==
    /\ \E t \in loading :
          /\ loading' = loading \ {t}
          /\ cmds' = OnLoadCmds(t)
    /\ lastOp' = "load"
    /\ UNCHANGED <<phase, env, alerts, console, window, resizePending, canvas, viewport,
                   rendererInit, shaders, textureSize, gBuffer, gMat, attributes, camera,
                   postCamera, meshes, lights, controls, animator, pendingFrames,
                   userMesh, obj>>
    /\ TrackTextures

\* ------------------------------------------------------- specifications ---
\* No OBJ text was handed to loadOBJ.
NoData ==
    [status |-> "none", position |-> <<>>, normal |-> <<>>, uv |-> <<>>,
     tangent |-> <<>>, count |-> 0]
NoObj == [doc |-> <<>>, text |-> <<>>, data |-> NoData]

\* Before main.js runs: nothing is built yet; the canvas that will be
\* created has the default size of a canvas element.
Blank ==
    /\ phase = "load"
    /\ alerts = <<>>
    /\ console = <<>>
    /\ window \in WinSizes
    /\ resizePending = FALSE
    /\ canvas = <<300, 150>>
    /\ viewport = <<300, 150>>
    /\ rendererInit = FALSE
    /\ shaders = [s \in ShaderSet |-> NoShader]
    /\ textureSize = [t \in GBufferTextures |-> <<0, 0>>]
    /\ gBuffer = [InitGBuffer(<<0, 0>>) EXCEPT !.FBO = "null", !.depth = "null"]
    /\ gMat = GBufferMaterial
    /\ attributes = InitialAttributes
    /\ camera = PerspectiveCamera(60, 1, 16000, window)
    /\ postCamera = OrthographicCamera(FInt(0), FInt(0), window)
    /\ meshes = <<>>
    /\ lights = <<>>
    /\ controls = [animateOn |-> TRUE, animateSpeed |-> 1]
    /\ animator = [theta |-> 0]
    /\ pendingFrames = 0
    /\ cmds = <<>>
    /\ lastOp = "none"
    /\ glUnits = [active |-> 0, bound |-> [u \in TextureUnits |-> NullTexture]]
    /\ images = [t \in ImageTextures |-> "none"]
    /\ userMesh = <<>>
    /\ loading = {}

\* A host that provides the context and the extension and builds every
\* program.
Init ==
    /\ Blank
    /\ obj = NoObj
    /\ env = [context |-> TRUE, extension |-> TRUE,
              shaders |-> [s \in ShaderSet |-> "ok"]]

Next ==
    \/ Main
    \/ DOMContentLoaded
    \/ Animate
    \/ WindowChange
    \/ OnResize
    \/ ToggleMesh
    \/ ToggleLight
    \/ ToggleDrawGbuffer
    \/ ToggleAnimateOn

Spec == Init /\ [][Next]_vars

\* A host that may refuse the context or the extension, or fail to build
\* one of the four programs.
StartupEnvs ==
    {[context |-> FALSE, extension |-> FALSE, shaders |-> [s \in ShaderSet |-> "ok"]]}
    \cup {[context |-> TRUE, extension |-> e, shaders |-> [s \in ShaderSet |-> "ok"]] :
            e \in BOOLEAN}
    \cup {[context |-> TRUE, extension |-> e,
           shaders |-> [s \in ShaderSet |-> IF s = f THEN o ELSE "ok"]] :
            e \in BOOLEAN, f \in ShaderSet, o \in ShaderOutcomes \ {"ok"}}

InitStartup ==
    /\ Blank
    /\ obj = NoObj
    /\ env \in StartupEnvs

NextStartup ==
    \/ Main
    \/ DOMContentLoaded
    \/ Animate
    \/ ToggleDrawGbuffer
    \/ ToggleAnimateOn

\* Start-up under every answer of the host, then frames.
SpecStartup == InitStartup /\ [][NextStartup]_vars

NextBind ==
    \/ Main
    \/ AddBuffer
    \/ BindUserMesh

\* A caller that builds a mesh role by role and binds it with the
\* renderer's shaders.
SpecBind == Init /\ [][NextBind]_vars

NextOrbit ==
    \/ Main
    \/ NewOrbitController
    \/ MouseDown
    \/ MouseMove
    \/ MouseUp
    \/ TouchStart
    \/ TouchMove
    \/ TouchEnd
    \/ Wheel
    \/ CallSetRotations
    \/ CallSetPitchMax
    \/ CallSetSpeed
    \/ CallSetBoomLength

\* The controller of the main camera under pointer, touch and wheel events
\* and calls of its methods.
SpecOrbit == Init /\ [][NextOrbit]_vars

NextOrtho ==
    \/ Main
    \/ WindowChange
    \/ OnResize
    \/ CallSetOrthographic

\* The post camera under window changes, resizes and calls of
\* setOrthographic.
SpecOrtho == Init /\ [][NextOrtho]_vars

NextLoad ==
    \/ Main
    \/ DOMContentLoaded
    \/ Animate
    \/ WindowChange
    \/ OnResize
    \/ OnLoad

\* Frames, resizes and the load events of the images in any order.
SpecLoad == Init /\ [][NextLoad]_vars

\* ------------------------------------------------- reading the GL calls ---
Indices == 1..Len(cmds)
SceneOwners == 1..NumMeshes
DrawOps == {"drawArrays", "drawElements"}

Max(S) == CHOOSE x \in S : \A y \in S : y <= x
Min(S) == CHOOSE x \in S : \A y \in S : x <= y

\* The positions in cmds of the calls with an op, and of those an owner issued.
At(op) == {k \in Indices : cmds[k].op = op}
OwnedBy(owner) == {k \in Indices : cmds[k].owner = owner}
Draws == {k \in Indices : cmds[k].op \in DrawOps}
DrawsOf(owner) == Draws \cap OwnedBy(owner)

\* The owners of the draw calls, in issue order.
DrawOwners ==
    LET drawn == SelectSeq(cmds, LAMBDA c : c.op \in DrawOps)
    IN  [k \in 1..Len(drawn) |-> drawn[k].owner]

\* The indices of the scene meshes, resp. lights, that are visible, in
\* insertion order.
RECURSIVE VisibleFrom(_, _)
VisibleFrom(objs, i) ==
    IF i > Len(objs) THEN <<>>
    ELSE (IF objs[i].visible THEN <<i>> ELSE <<>>) \o VisibleFrom(objs, i + 1)

VisibleMeshes == VisibleFrom(meshes, 1)
VisibleLights == VisibleFrom(lights, 1)

\* The geometry pass: the calls after the set-up's clear and before the
\* default framebuffer is bound.
DefaultBound == {k \in At("bindFramebuffer") : cmds[k].b = "null"}
GeometryPass ==
    LET cleared == Min(At("clear"))
        unbound == Min(DefaultBound)
    IN  {k \in Indices : cleared < k /\ k < unbound}

\* The value handed to the 'lights' uniform.
LightsUniforms == {k \in At("uniform3fv") : cmds[k].a = "lights"}
LightsValue == cmds[Min(LightsUniforms)].b

\* --------------------------------------------------------------- claims ---
\* C1: in a frame an invisible scene mesh causes no GL call at all, and
\* the geometry pass consists of the calls of the visible meshes only, mesh
\* after mesh in scene insertion order, one draw per visible mesh.
C1_InvisibleMeshesCostNothing ==
    lastOp = "frame" =>
        /\ \A k \in Indices :
              cmds[k].owner \in SceneOwners => meshes[cmds[k].owner].visible
        /\ \A k \in GeometryPass : cmds[k].owner \in SceneOwners
        /\ \A k \in Indices : cmds[k].owner \in SceneOwners => k \in GeometryPass
        /\ \A k \in GeometryPass :
              k + 1 \in GeometryPass => cmds[k].owner <= cmds[k + 1].owner
        /\ SelectSeq(DrawOwners, LAMBDA o : o \in SceneOwners) = VisibleMeshes
        /\ \A i \in 1..Len(VisibleMeshes) : \E k \in OwnedBy(VisibleMeshes[i]) :
              cmds[k].op = "useProgram"

\* C1 witness: a frame drawn with one mesh hidden and another visible.
C1_Witness ==
    /\ lastOp = "frame"
    /\ \E m, n \in SceneOwners : ~meshes[m].visible /\ meshes[n].visible /\ m < n

\* C2: element 0 of the array handed to the 'lights' uniform is three
\* times the number of visible lights.
C2_LightCountField ==
    lastOp = "frame" =>
        /\ Cardinality(LightsUniforms) = 1
        /\ LightsValue[1] = FInt(3 * Cardinality({l \in 1..Len(lights) : lights[l].visible}))

\* C2 witness: a frame drawn with one light visible and another hidden.
C2_Witness ==
    /\ lastOp = "frame"
    /\ \E l, k \in 1..Len(lights) : lights[l].visible /\ ~lights[k].visible

\* C3: after the 3-value header the light array holds, for the k-th
\* visible light in insertion order, the 9 values position, colour,
\* attenuation of that light, and nothing else.
C3_LightArrayDense ==
    lastOp = "frame" =>
        /\ Len(LightsValue) = 3 + 9 * Len(VisibleLights)
        /\ \A k \in 1..Len(VisibleLights) :
              SubSeq(LightsValue, 3 + 9 * (k - 1) + 1, 3 + 9 * k)
                = lights[VisibleLights[k]].position \o lights[VisibleLights[k]].color
                  \o lights[VisibleLights[k]].attenuation

\* C3 witness: a frame drawn with the first light hidden and a later one
\* visible, whose values then follow the header directly.
C3_Witness ==
    /\ lastOp = "frame"
    /\ ~lights[1].visible
    /\ \E l \in 2..Len(lights) : lights[l].visible

\* The first seven calls of a frame's set-up, by name.
SetupOps == <<"bindFramebuffer", "drawBuffers", "clearColor", "enable", "enable",
              "cullFace", "clear">>

\* C4: a frame starts with the G-Buffer bound, its 4 draw buffers set,
\* the clear and depth test and back-face culling enabled, before any call of
\* a scene mesh; each visible mesh's calls are one unbroken run that holds its
\* bind and ends in its only draw; then the default framebuffer is bound,
\* cleared, depth test and culling disabled, before any call of the lighting
\* quad; the lighting quad is drawn exactly once, after every mesh draw and
\* before every debug quad draw.
C4_PassOrder ==
    lastOp = "frame" =>
        LET meshCalls == {k \in Indices : cmds[k].owner \in SceneOwners}
            litDraws == DrawsOf(DefQuad)
        IN  /\ Len(cmds) >= Len(SetupOps)
            /\ \A i \in 1..Len(SetupOps) : cmds[i].op = SetupOps[i] /\ cmds[i].owner = 0
            /\ cmds[1].b = gBuffer.FBO
            /\ cmds[2].a = <<0, 1, 2, 3>>
            /\ cmds[4].a = "DEPTH_TEST" /\ cmds[5].a = "CULL_FACE" /\ cmds[6].a = "BACK"
            /\ cmds[7].a = "COLOR_BUFFER_BIT" /\ cmds[7].b = "DEPTH_BUFFER_BIT"
            /\ \A k \in meshCalls : k > Len(SetupOps)
            /\ \A m \in SceneOwners : meshes[m].visible =>
                  LET own == OwnedBy(m)
                  IN  /\ own # {}
                      /\ own = Min(own)..Max(own)
                      /\ DrawsOf(m) = {Max(own)}
                      /\ \E k \in own : cmds[k].op = "useProgram"
            /\ DefaultBound # {}
            /\ LET d == Min(DefaultBound)
               IN  /\ \A k \in meshCalls : k < d
                   /\ d + 3 <= Len(cmds)
                   /\ cmds[d + 1].op = "clear"
                   /\ cmds[d + 2].op = "disable" /\ cmds[d + 2].a = "DEPTH_TEST"
                   /\ cmds[d + 3].op = "disable" /\ cmds[d + 3].a = "CULL_FACE"
                   /\ \A k \in OwnedBy(DefQuad) \cup OwnedBy(BufQuad) : k > d + 3
            /\ Cardinality(litDraws) = 1
            /\ \A k \in Draws :
                  /\ cmds[k].owner \in SceneOwners => \A j \in litDraws : k < j
                  /\ cmds[k].owner = BufQuad => \A j \in litDraws : j < k

\* C4 witness: a frame that drew two scene meshes, the lighting quad and
\* the debug quads.
C4_Witness ==
    /\ lastOp = "frame"
    /\ \E m, n \in SceneOwners : m # n /\ DrawsOf(m) # {} /\ DrawsOf(n) # {}
    /\ DrawsOf(DefQuad) # {}
    /\ DrawsOf(BufQuad) # {}

\* The calls that make a program current: MeshInstance.bind writes the
\* projection, model and model-view matrices and the camera position in the
\* four calls that follow.
Binds == At("useProgram")

\* C5: every scene mesh is bound with the main camera's perspective
\* projection, orbit view matrix and position; the lighting quad and the debug
\* quads are bound with the post camera's orthographic projection and view
\* matrix and with the main camera's position.
C5_CameraOfThePass ==
    lastOp = "frame" =>
        \A k \in Binds :
            /\ k + 4 <= Len(cmds)
            /\ \A i \in 1..3 : cmds[k + i].op = "uniformMatrix4fv"
            /\ cmds[k + 4].op = "uniform3fv"
            /\ cmds[k + 4].b = camera.position
            /\ IF cmds[k].owner \in SceneOwners
               THEN /\ cmds[k + 1].b = camera.projectionMatrix
                    /\ cmds[k + 1].b.kind = "perspective"
                    /\ cmds[k + 3].b[1] = camera.viewMatrix
                    /\ cmds[k + 3].b[1].kind = "orbit"
               ELSE /\ cmds[k + 1].b = postCamera.projectionMatrix
                    /\ cmds[k + 1].b.kind = "ortho"
                    /\ cmds[k + 3].b[1] = postCamera.viewMatrix
                    /\ cmds[k + 3].b[1].kind = "lookAt"
                    /\ postCamera.position # camera.position

\* C5 witness: a frame after an earlier frame's lighting pass, with a
\* scene mesh, the lighting quad and a debug quad bound.
C5_Witness ==
    /\ lastOp = "frame"
    /\ animator.theta > 0
    /\ \E k \in Binds : cmds[k].owner \in SceneOwners
    /\ \E k \in Binds : cmds[k].owner = DefQuad
    /\ \E k \in Binds : cmds[k].owner = BufQuad

\* C6: when the resize event for the window's size has been handled,
\* the canvas, the viewport, the depth renderbuffer and the four G-Buffer
\* textures have the window's size; and at all times every colour attachment
\* has the size of the depth attachment.
C6_ResizeReachesEveryStore ==
    rendererInit =>
        /\ ~resizePending =>
              /\ canvas = window
              /\ viewport = window
              /\ gBuffer.depthSize = window
              /\ \A t \in GBufferTextures : textureSize[t] = window
        /\ {gBuffer.attachments[i] : i \in 1..Len(gBuffer.attachments)} = GBufferTextures
        /\ \A i \in 1..Len(gBuffer.attachments) :
              textureSize[gBuffer.attachments[i]] = gBuffer.depthSize

\* C6 witness: a resize event handled after frames with the debug overlay
\* were drawn at another window size.
C6_Witness ==
    /\ lastOp = "resize"
    /\ phase = "running"
    /\ attributes.drawGbuffer
    /\ attributes.projectionMatrix.kind = "ortho"
    /\ attributes.projectionMatrix.v[2] # FHalf(FInt(window[1]))
    /\ \A t \in GBufferTextures : textureSize[t] = window

\* C7: a resize event handled right after another one for the same
\* window size changes neither the canvas, the viewport, the G-Buffer (depth
\* size, attachment bindings), the texture sizes nor either camera.
C7_ResizeIdempotent ==
    [][lastOp' = "resizeAgain" =>
          /\ canvas' = canvas
          /\ viewport' = viewport
          /\ gBuffer' = gBuffer
          /\ textureSize' = textureSize
          /\ camera' = camera
          /\ postCamera' = postCamera]_vars

\* C7 witness: two resize events handled in a row.
C7_Witness ==
    /\ lastOp = "resizeAgain"
    /\ rendererInit
    /\ postCamera.right = FHalf(FInt(window[1])) \/ postCamera.top = FHalf(FInt(window[2]))

\* The texture unit that is active when call j is issued, and the texture
\* bound to unit u when call n is issued.
RECURSIVE ActiveUnitAt(_)
ActiveUnitAt(j) ==
    IF j <= 1 THEN 0
    ELSE IF cmds[j - 1].op = "activeTexture" THEN cmds[j - 1].b
    ELSE ActiveUnitAt(j - 1)

RECURSIVE UnitTexture(_, _)
UnitTexture(u, n) ==
    IF n <= 1 THEN <<"null", "null">>
    ELSE IF cmds[n - 1].op = "bindTexture" /\ ActiveUnitAt(n - 1) = u THEN cmds[n - 1].b
    ELSE UnitTexture(u, n - 1)

\* C8: colour attachment N is the texture of the channel the geometry
\* fragment shader writes at location N, and when the lighting quad is drawn
\* each of the samplers positionTexture, albedoTexture, normalTexture and
\* materialTexture was last set to a unit that holds that channel's attachment.
C8_ChannelCorrespondence ==
    /\ rendererInit =>
          \A ch \in Channels :
              gBuffer.attachments[GBufferOutputLocation(ch) + 1] = <<"gBuffer", ch>>
    /\ lastOp = "frame" =>
          \A d \in DrawsOf(DefQuad) : \A ch \in Channels :
              LET writes == {k \in At("uniform1i") \cap OwnedBy(DefQuad) :
                                k < d /\ cmds[k].a = UniformGLSLName(ch)}
              IN  /\ writes # {}
                  /\ UnitTexture(cmds[Max(writes)].b, d)
                        = gBuffer.attachments[GBufferOutputLocation(ch) + 1]

\* C8 witness: a lighting pass after a frame whose debug overlay
\* reassigned the material's base slot.
C8_Witness ==
    /\ lastOp = "frame"
    /\ animator.theta > 0
    /\ DrawsOf(DefQuad) # {}
    /\ DrawsOf(BufQuad) # {}

\* The programs whose build failed, and the calls that belong to building
\* programs, to the G-Buffer and to frames.
FailedPrograms == {s \in ShaderSet : env.shaders[s] # "ok"}
RenderingOps ==
    {"createShader", "shaderSource", "compileShader", "createProgram", "attachShader",
     "linkProgram", "createFramebuffer", "createRenderbuffer", "framebufferTexture2D",
     "useProgram", "drawArrays", "drawElements"}

\* C9: once main.js has run, a program whose stage failed to compile or
\* that failed to link has its diagnostic logged and is never made current
\* (hence never drawn with), while the script goes on with the other programs.
C9_FailedProgramUnused ==
    (phase # "load" /\ env.context /\ FailedPrograms # {}) =>
        /\ console # <<>>
        /\ phase # "failed"
        /\ \A k \in At("useProgram") : cmds[k].a \notin FailedPrograms

\* C10: once main.js has run without a context or without the float
\* colour-buffer extension, the user was alerted and no call that builds a
\* program or the G-Buffer or draws a frame is issued.
C10_UnavailableStopsRendering ==
    (phase # "load" /\ (~env.context \/ ~env.extension)) =>
        /\ alerts # <<>>
        /\ \A k \in Indices : cmds[k].op \notin RenderingOps

\* The calls that write a uniform.
UniformOps == {"uniformMatrix4fv", "uniform3fv", "uniform1i"}

\* C11: a bind of a mesh with any roles binds 'index' only as the
\* element array buffer, issues no call for a role whose location is absent
\* (-1, or no location stored under that name), binds every other role to its
\* location with its own component count, and makes the program current
\* before any uniform is written.
C11_BindByRole ==
    (lastOp = "bind" /\ At("useProgram") # {}) =>
        LET use == Min(At("useProgram"))
            shader == shaders[cmds[use].a]
        IN  /\ \A i \in 1..Len(userMesh) :
                  LET buf == userMesh[i]
                      binds == {k \in At("bindBuffer") : cmds[k].b = buf.id}
                      loc == ResolvedLocation(shader, buf.name)
                  IN  IF buf.name = "index"
                      THEN /\ binds # {}
                           /\ \A k \in binds :
                                 /\ cmds[k].a = "ELEMENT_ARRAY_BUFFER"
                                 /\ cmds[k + 1].op # "vertexAttribPointer"
                      ELSE IF ~loc.defined \/ loc.value = -1
                      THEN binds = {}
                      ELSE \E k \in binds :
                              /\ binds = {k}
                              /\ cmds[k].a = "ARRAY_BUFFER"
                              /\ cmds[k + 1].op = "vertexAttribPointer"
                              /\ cmds[k + 1].a = loc.value
                              /\ cmds[k + 1].b = buf.itemSize
                              /\ cmds[k + 2].op = "enableVertexAttribArray"
                              /\ cmds[k + 2].a = loc.value
            /\ \A k \in Indices : cmds[k].op \in UniformOps => use < k

\* C12: after any sequence of rotate inputs and calls of setRotations,
\* setPitchMax and setSpeed the controller's pitch lies within
\* [-pitchMax, +pitchMax] for the pitchMax it has now.
C12_PitchWithinPitchMax ==
    camera.hasOrbit =>
        /\ FLe(FNeg(camera.orbit.pitchMax), camera.orbit.pitch)
        /\ FLe(camera.orbit.pitch, camera.orbit.pitchMax)

\* C13: the boom length lies within [80, 500] in every state: after
\* construction with any boom length, any wheel inputs and any setBoomLength.
C13_BoomLengthInRange ==
    camera.hasOrbit =>
        /\ FLe(FInt(80), camera.orbit.boomLength)
        /\ FLe(camera.orbit.boomLength, FInt(500))

\* The full width and height of the post camera's frustum.
FrustumWidth == FSub(postCamera.right, postCamera.left)
FrustumHeight == FSub(postCamera.top, postCamera.bottom)
Wide == window[1] > window[2]
Tall == window[1] < window[2]

\* C14 as stated: setOrthographic keeps the requested size of the shorter
\* screen dimension: the requested height when the window is wider than
\* tall, the requested width when it is taller than wide.
C14_ShorterDimensionKept ==
    lastOp = "setOrthographic" =>
        /\ Wide => FrustumHeight = postCamera.height
        /\ Tall => FrustumWidth = postCamera.width

\* C14: setOrthographic keeps the requested size of the longer screen
\* dimension and derives the other from it: when the window is wider than
\* tall the full width is the requested width and the full height is that
\* width times winH / winW; when it is taller than wide the full height is
\* the requested height and the full width is that height times winW / winH.
C14_LongerDimensionKept ==
    lastOp = "setOrthographic" =>
        /\ Wide => /\ FrustumWidth = postCamera.width
                   /\ FrustumHeight = FMul(postCamera.width, Frac(window[2], window[1]))
        /\ Tall => /\ FrustumHeight = postCamera.height
                   /\ FrustumWidth = FMul(postCamera.height, Frac(window[1], window[2]))

\* A call in a wide window with a requested ratio other than the window's.
C14_Witness ==
    /\ lastOp = "setOrthographic"
    /\ Wide
    /\ FMul(postCamera.width, FInt(window[2])) # FMul(postCamera.height, FInt(window[1]))

\* C15: after setOrthographic or onWindowResize, for every positive
\* requested size and every window size, the frustum is symmetric
\* (left = -right, bottom = -top) and (right - left) * winH =
\* (top - bottom) * winW.
C15_FrustumHasWindowAspect ==
    lastOp \in {"main", "setOrthographic", "resize", "resizeAgain"} /\ rendererInit =>
        /\ postCamera.left = FNeg(postCamera.right)
        /\ postCamera.bottom = FNeg(postCamera.top)
        /\ FMul(FrustumWidth, FInt(window[2])) = FMul(FrustumHeight, FInt(window[1]))

\* A call in a tall window with a requested width other than the requested
\* height, leaving a frustum that is not empty.
C15_Witness ==
    /\ lastOp = "setOrthographic"
    /\ Tall
    /\ postCamera.width # postCamera.height
    /\ FrustumWidth[1] > 0

\* The corners of the Quad's position buffer: x and y are -0.5 or 0.5, z is 1.
QuadMin == Frac(-1, 2)
QuadMax == Frac(1, 2)
QuadZ == FInt(1)

\* The value the matrix uniform of that GLSL name has when the draw at d is
\* issued: the last one its instance wrote before d.
MatrixAt(d, name) ==
    cmds[Max({k \in At("uniformMatrix4fv") :
                 k < d /\ cmds[k].owner = cmds[d].owner /\ cmds[k].a = name})].b

\* The rectangle the quad drawn at d covers in the world, from its model
\* matrix <<rotation, position, scale>>.
QuadSpan(d) ==
    LET model == MatrixAt(d, "model")
    IN  [rotation |-> model[1],
         left |-> FAdd(model[2][1], FMul(QuadMin, model[3][1])),
         right |-> FAdd(model[2][1], FMul(QuadMax, model[3][1])),
         bottom |-> FAdd(model[2][2], FMul(QuadMin, model[3][2])),
         top |-> FAdd(model[2][2], FMul(QuadMax, model[3][2])),
         z |-> FAdd(model[2][3], FMul(QuadZ, model[3][3]))]

\* The post camera looks from (0, 0, 100) at the origin, so world x and y
\* are view x and y.
PostView == LookAt(Vec3(0, 0, 100), Vec3(0, 0, 0))

\* C16: in every frame run with no window change waiting for its resize
\* event, the lighting quad covers exactly the post camera's frustum
\* [left, right] x [bottom, top], which is the window's width by its height,
\* and lies between the near and the far plane.
C16_LightingQuadFillsFrustum ==
    lastOp = "frame" /\ ~resizePending =>
        /\ DrawsOf(DefQuad) # {}
        /\ \A d \in DrawsOf(DefQuad) :
              LET q == QuadSpan(d)
                  projection == MatrixAt(d, "projection")
              IN  /\ projection.kind = "ortho"
                  /\ MatrixAt(d, "modelView")[1] = PostView
                  /\ q.rotation = 0
                  /\ q.left = projection.v[1] /\ q.right = projection.v[2]
                  /\ q.bottom = projection.v[3] /\ q.top = projection.v[4]
                  /\ FSub(q.right, q.left) = FInt(window[1])
                  /\ FSub(q.top, q.bottom) = FInt(window[2])
                  /\ FLe(projection.v[5], FSub(FInt(100), q.z))
                  /\ FLe(FSub(FInt(100), q.z), projection.v[6])

\* A frame of a tall window whose size the canvas has taken.
C16_Witness ==
    /\ lastOp = "frame"
    /\ ~resizePending
    /\ Tall
    /\ canvas = window
    /\ DrawsOf(DefQuad) # {}

\* The ascending sequence of a set of indices.
RECURSIVE Ascending(_)
Ascending(S) == IF S = {} THEN <<>> ELSE <<Min(S)>> \o Ascending(S \ {Min(S)})

\* The draws of the overlay quad in the order they are issued.
OverlayDraws == Ascending(DrawsOf(BufQuad))

\* The texture the pass-through program samples in the draw at d: the one
\* on the unit last written to baseTexture.
ShownTexture(d) ==
    LET writes == {k \in At("uniform1i") :
                      k < d /\ cmds[k].owner = cmds[d].owner /\ cmds[k].a = "baseTexture"}
    IN  UnitTexture(cmds[Max(writes)].b, d)

\* The channels the overlay shows, first draw first.
ShownChannels == [i \in 1..Len(OverlayDraws) |-> ShownTexture(OverlayDraws[i])[2]]

\* Each overlay quad lies lower than the one drawn before it.
TopToBottom ==
    \A i \in 2..Len(OverlayDraws) :
        /\ FLe(QuadSpan(OverlayDraws[i]).top, QuadSpan(OverlayDraws[i - 1]).bottom)
        /\ QuadSpan(OverlayDraws[i]).top # QuadSpan(OverlayDraws[i - 1]).top

\* C17 as stated: the overlay draws, top to bottom, the position, normal and
\* material channels, and no quad for the albedo channel.
C17_OverlayWithoutAlbedo ==
    lastOp = "frame" /\ attributes.drawGbuffer =>
        /\ ShownChannels = <<"position", "normal", "material">>
        /\ TopToBottom

\* C17: the overlay draws one quad per key of the gBuffer material other
\* than base, top to bottom in key order: albedo, normal, material,
\* position; each shows the gBuffer texture of that channel.  Without the
\* overlay no such quad is drawn.
C17_OverlayInKeyOrder ==
    lastOp = "frame" =>
        IF attributes.drawGbuffer
        THEN /\ ShownChannels = <<"albedo", "normal", "material", "position">>
             /\ \A i \in 1..Len(OverlayDraws) :
                    ShownTexture(OverlayDraws[i])[1] = "gBuffer"
             /\ TopToBottom
        ELSE OverlayDraws = <<>>

\* An overlay frame, after which the base slot holds the position texture
\* again.
C17_Witness ==
    /\ lastOp = "frame"
    /\ attributes.drawGbuffer
    /\ Len(OverlayDraws) > 1
    /\ gMat.textures["base"] = <<"gBuffer", "position">>

\* C18: every overlay quad is winH / 4 high and (winH / 4) * (winW / winH)
\* wide with its left edge at -winW / 2; the k-th (k = 0, 1, ...) is centred
\* at y = winH / 2 - height / 2 - k * height, so the first one's top edge is
\* winH / 2, each one's top edge is the bottom edge of the one before, and
\* none reaches below -winH / 2.  When no window change waits for its
\* resize event these are the left, top and bottom of the frustum.
C18_OverlayLayout ==
    lastOp = "frame" /\ attributes.drawGbuffer =>
        LET height == FDiv(FInt(window[2]), FInt(4))
            width == FMul(height, Frac(window[1], window[2]))
        IN  \A i \in 1..Len(OverlayDraws) :
                LET q == QuadSpan(OverlayDraws[i])
                    projection == MatrixAt(OverlayDraws[i], "projection")
                IN  /\ q.rotation = 0
                    /\ FSub(q.top, q.bottom) = height
                    /\ FSub(q.right, q.left) = width
                    /\ q.left = Frac(-window[1], 2)
                    /\ FHalf(FAdd(q.top, q.bottom))
                          = FSub(FSub(FHalf(FInt(window[2])), FHalf(height)),
                                 FMul(FInt(i - 1), height))
                    /\ i = 1 => q.top = FHalf(FInt(window[2]))
                    /\ i > 1 => q.top = QuadSpan(OverlayDraws[i - 1]).bottom
                    /\ FLe(Frac(-window[2], 2), q.bottom)
                    /\ ~resizePending =>
                          /\ q.left = projection.v[1]
                          /\ i = 1 => q.top = projection.v[4]
                          /\ FLe(projection.v[3], q.bottom)

\* An overlay frame of a wide window whose last quad ends on the bottom edge.
C18_Witness ==
    /\ lastOp = "frame"
    /\ attributes.drawGbuffer
    /\ Wide
    /\ ~resizePending
    /\ Len(OverlayDraws) > 1
    /\ QuadSpan(OverlayDraws[Len(OverlayDraws)]).bottom = Frac(-window[2], 2)

\* What a step may do to the image textures: every texture holds the
\* placeholder while its load event is outstanding and the image after it;
\* contents change only from nothing to the placeholder when main.js
\* creates the texture, and from the placeholder to the image in the
\* texture's own callback, which leaves every other texture as it was; a
\* frame or a resize changes no contents, and every texture a scene mesh
\* binds in a frame holds the placeholder or the image.
ImageStep ==
    /\ \A t \in ImageTextures :
          /\ images'[t] = (IF ~rendererInit' THEN "none"
                           ELSE IF t \in loading' THEN "placeholder" ELSE "image")
          /\ images'[t] # images[t] =>
                \/ lastOp' = "main" /\ images[t] = "none" /\ images'[t] = "placeholder"
                \/ /\ lastOp' = "load"
                   /\ images[t] = "placeholder" /\ images'[t] = "image"
                   /\ t \in loading /\ loading' = loading \ {t}
                   /\ \A u \in ImageTextures \ {t} : images'[u] = images[u]
    /\ lastOp' \in {"frame", "resize", "resizeAgain"} => images' = images
    /\ lastOp' = "frame" =>
          \A k \in 1..Len(cmds') :
              cmds'[k].op = "bindTexture" /\ cmds'[k].owner \in SceneOwners =>
                  /\ cmds'[k].b \in ImageTextures
                  /\ images'[cmds'[k].b] \in {"placeholder", "image"}

\* C19: an image texture starts as the placeholder and becomes the loaded
\* image only through its own load callback, at most once and never back;
\* callbacks run between frames, so a frame sees each texture as the
\* placeholder or as the image; a load that never completes leaves the
\* placeholder; one texture's callback never changes another's contents.
C19_PlaceholderUntilOwnLoad == [][ImageStep]_vars

\* A frame drawn while one image has arrived and another has not.
C19_Witness ==
    /\ lastOp = "frame"
    /\ \E t, u \in ImageTextures : images[t] = "image" /\ images[u] = "placeholder"
    /\ \E t \in ImageTextures : t \in loading

\* ------------------------------------------------------------- loadOBJ ---
\* A text is a sequence of characters.  The white space of the inputs.
WhiteSpace == {" ", "\t", "\r"}
DigitChars == <<"0", "1", "2", "3", "4", "5", "6", "7", "8", "9">>
DigitSet == {DigitChars[i] : i \in 1..10}
DigitValue(c) == (CHOOSE i \in 1..10 : DigitChars[i] = c) - 1

\* NaN, and Infinity of either sign: a fraction with denominator 0.
NotFinite == <<0, 0>>
Finite(x) == x[2] # 0

\* String.prototype.split with a one-character separator.
RECURSIVE SplitOn(_, _)
SplitOn(s, c) ==
    LET at == {i \in 1..Len(s) : s[i] = c}
    IN  IF at = {} THEN <<s>>
        ELSE <<SubSeq(s, 1, Min(at) - 1)>> \o SplitOn(SubSeq(s, Min(at) + 1, Len(s)), c)

\* String.prototype.trim
Trim(s) ==
    LET ink == {i \in 1..Len(s) : s[i] \notin WhiteSpace}
    IN  IF ink = {} THEN <<>> ELSE SubSeq(s, Min(ink), Max(ink))

\* line.split(/\s+/)
RECURSIVE SplitWhiteSpace(_)
SplitWhiteSpace(s) ==
    LET ws == {i \in 1..Len(s) : s[i] \in WhiteSpace}
    IN  IF ws = {} THEN <<s>>
        ELSE LET ink == {j \in Min(ws)..Len(s) : s[j] \notin WhiteSpace}
             IN  <<SubSeq(s, 1, Min(ws) - 1)>>
                 \o (IF ink = {} THEN <<<<>>>>
                     ELSE SplitWhiteSpace(SubSeq(s, Min(ink), Len(s))))

\* The value of a run of digits.
RECURSIVE DigitsValue(_)
DigitsValue(s) ==
    IF s = <<>> THEN 0
    ELSE 10 * DigitsValue(SubSeq(s, 1, Len(s) - 1)) + DigitValue(s[Len(s)])

RECURSIVE Pow10(_)
Pow10(n) == IF n = 0 THEN 1 ELSE 10 * Pow10(n - 1)

\* Number(str) for the numerals of the inputs: an optional sign, digits,
\* an optional point and digits; the empty string is 0; NaN otherwise.
Number(str) ==
    LET t == Trim(str)
        signed == t # <<>> /\ t[1] \in {"-", "+"}
        body == IF signed THEN Tail(t) ELSE t
        points == {i \in 1..Len(body) : body[i] = "."}
    IN  IF t = <<>> THEN FInt(0)
        ELSE IF \/ body = <<>> \/ body = <<".">>
                \/ Cardinality(points) > 1
                \/ \E i \in 1..Len(body) : body[i] \notin DigitSet \cup {"."}
        THEN NotFinite
        ELSE LET whole == IF points = {} THEN body ELSE SubSeq(body, 1, Min(points) - 1)
                 part == IF points = {} THEN <<>>
                         ELSE SubSeq(body, Min(points) + 1, Len(body))
                 value == Frac(DigitsValue(whole) * Pow10(Len(part)) + DigitsValue(part),
                               Pow10(Len(part)))
             IN  IF t[1] = "-" THEN FNeg(value) ELSE value

\* A regular expression that accepts every line starting with the word.
TestPrefix(line, word) ==
    /\ Len(line) >= Len(word)
    /\ SubSeq(line, 1, Len(word)) = word

\* /^word\s/.test(line)
Test(line, word) ==
    /\ Len(line) > Len(word)
    /\ SubSeq(line, 1, Len(word)) = word
    /\ line[Len(word) + 1] \in WhiteSpace

\* The first loop of loadOBJ over the lines from l on: the four arrays,
\* vertexData, uvData and normalData with their entry 0.
RECURSIVE ParseLines(_, _, _)
ParseLines(lines, l, acc) ==
    IF l > Len(lines) THEN acc
    ELSE LET line == Trim(lines[l])
             tokens == Tail(SplitWhiteSpace(line))
             numbers == [i \in 1..Len(tokens) |-> Number(tokens[i])]
         IN  IF line = <<>> \/ line[1] = "#"
             THEN ParseLines(lines, l + 1, acc)
             ELSE IF Test(line, <<"v">>)
             THEN ParseLines(lines, l + 1,
                             [acc EXCEPT !.vertexData = Append(@, numbers)])
             ELSE IF Test(line, <<"v", "n">>)
             THEN ParseLines(lines, l + 1,
                             [acc EXCEPT !.normalData = Append(@, numbers)])
             ELSE IF Test(line, <<"v", "t">>)
             THEN ParseLines(lines, l + 1, [acc EXCEPT !.uvData = Append(@, numbers)])
             ELSE IF Test(line, <<"f">>)
             THEN ParseLines(lines, l + 1,
                             [acc EXCEPT !.polyCount = @ + 1, !.faces = Append(@, tokens)])
             ELSE ParseLines(lines, l + 1, acc)

\* array[n] for a number n: the entry, or undefined when n is no index of
\* the array; part k (from 0) of an index triple is undefined when the
\* triple has no such part.
ArrayAt(array, triple, k) ==
    IF /\ k < Len(triple)
       /\ triple[k + 1][2] = 1
       /\ triple[k + 1][1] >= 0
       /\ triple[k + 1][1] < Len(array)
    THEN [defined |-> TRUE, value |-> array[triple[k + 1][1] + 1]]
    ELSE [defined |-> FALSE, value |-> <<>>]

\* Component k (from 0) of a record; undefined, and NaN in arithmetic, when
\* the record is shorter.
Component(record, k) == IF k < Len(record) THEN record[k + 1] ELSE NotFinite

\* Subtraction and multiplication of doubles, exact on finite values.
JSub(x, y) == IF Finite(x) /\ Finite(y) THEN FSub(x, y) ELSE NotFinite
JMul(x, y) == IF Finite(x) /\ Finite(y) THEN FMul(x, y) ELSE NotFinite

\* 1.0 / x: an infinity when x is a zero.
JInverse(x) == IF Finite(x) /\ x[1] # 0 THEN FDiv(FInt(1), x) ELSE NotFinite

\* str.split("/").map(Number)
IndexTriple(token) ==
    LET parts == SplitOn(token, "/")
    IN  [i \in 1..Len(parts) |-> Number(parts[i])]

\* The second loop of loadOBJ over the faces from f on; a face with fewer
\* than three tokens, or an index that names no record, throws a TypeError.
RECURSIVE BuildArrays(_, _, _)
BuildArrays(parsed, f, acc) ==
    IF f > Len(parsed.faces) THEN acc
    ELSE IF Len(parsed.faces[f]) < 3 THEN [acc EXCEPT !.status = "TypeError"]
    ELSE LET face == parsed.faces[f]
             A == IndexTriple(face[1])
             B == IndexTriple(face[2])
             C == IndexTriple(face[3])
             v0 == ArrayAt(parsed.vertexData, A, 0)
             v1 == ArrayAt(parsed.vertexData, B, 0)
             v2 == ArrayAt(parsed.vertexData, C, 0)
             u0 == ArrayAt(parsed.uvData, A, 1)
             u1 == ArrayAt(parsed.uvData, B, 1)
             u2 == ArrayAt(parsed.uvData, C, 1)
             n0 == ArrayAt(parsed.normalData, A, 2)
             n1 == ArrayAt(parsed.normalData, B, 2)
             n2 == ArrayAt(parsed.normalData, C, 2)
             edge1 == [k \in 1..3 |-> JSub(Component(v1.value, k - 1),
                                           Component(v0.value, k - 1))]
             edge2 == [k \in 1..3 |-> JSub(Component(v2.value, k - 1),
                                           Component(v0.value, k - 1))]
             uv1 == [k \in 1..2 |-> JSub(Component(u1.value, k - 1),
                                         Component(u0.value, k - 1))]
             uv2 == [k \in 1..2 |-> JSub(Component(u2.value, k - 1),
                                         Component(u0.value, k - 1))]
             inv == JInverse(JSub(JMul(uv1[1], uv2[2]), JMul(uv2[1], uv1[2])))
             tangent == [k \in 1..3 |->
                            JMul(inv, JSub(JMul(uv2[2], edge1[k]), JMul(uv1[2], edge2[k])))]
         IN  IF \E r \in {v0, v1, v2, u0, u1, u2, n0, n1, n2} : ~r.defined
             THEN [acc EXCEPT !.status = "TypeError"]
             ELSE BuildArrays(parsed, f + 1,
                      [acc EXCEPT !.position = @ \o v0.value \o v1.value \o v2.value,
                                  !.uv = @ \o u0.value \o u1.value \o u2.value,
                                  !.normal = @ \o n0.value \o n1.value \o n2.value,
                                  !.tangent = @ \o tangent \o tangent \o tangent])

\* loadOBJ(OBJString): what it returns, or the TypeError it throws.
LoadOBJ(OBJString) ==
    LET parsed == ParseLines(SplitOn(OBJString, "\n"), 1,
                             [vertexData |-> <<Vec3(0, 0, 0)>>,
                              uvData |-> <<<<FInt(0), FInt(0)>>>>,
                              normalData |-> <<Vec3(0, 0, 0)>>,
                              faces |-> <<>>, polyCount |-> 0])
    IN  BuildArrays(parsed, 1,
                    [status |-> "returned", position |-> <<>>, normal |-> <<>>,
                     uv |-> <<>>, tangent |-> <<>>, count |-> parsed.polyCount])

\* ------------------------------------------------- OBJ texts as inputs ---
\* Most face records of a document.
MaxFaces == 2

Item(kind, vals) == [kind |-> kind, vals |-> vals]

\* The v, vt and vn records of the documents.
Records ==
    <<Item("v", Vec3(0, 0, 0)), Item("v", Vec3(1, 0, -1)),
      Item("v", <<Frac(1, 2), FInt(12), FInt(0)>>),
      Item("vt", <<FInt(0), FInt(0)>>), Item("vt", <<FInt(1), FInt(0)>>),
      Item("vt", <<FInt(0), FInt(1)>>),
      Item("vn", Vec3(0, 0, 1)), Item("vn", Vec3(0, -1, 0))>>

\* Face records: three position/uv/normal index triples.  The third has
\* one uv for its three vertices; the fourth names a fourth position.
FaceSet ==
    {Item("f", <<<<1, 1, 1>>, <<2, 2, 1>>, <<3, 3, 2>>>>),
     Item("f", <<<<3, 3, 2>>, <<1, 1, 1>>, <<2, 2, 2>>>>),
     Item("f", <<<<1, 1, 1>>, <<2, 1, 1>>, <<3, 1, 1>>>>),
     Item("f", <<<<1, 1, 1>>, <<2, 2, 1>>, <<4, 3, 1>>>>)}

FaceLists == UNION {[1..n -> FaceSet] : n \in 0..MaxFaces}

\* Lines that are no v, vn, vt or f record: empty, white space only, a
\* comment, an object name, a parameter-space vertex.
NoiseLines ==
    {<<>>, <<" ", "\t">>,
     <<"#", " ", "v", " ", "1", " ", "2", " ", "3">>,
     <<"o", " ", "v">>,
     <<"v", "p", " ", "1", " ", "2">>}

InsertAt(doc, p, item) == SubSeq(doc, 1, p) \o <<item>> \o SubSeq(doc, p + 1, Len(doc))

\* Documents: the records before or after the faces, and one such line
\* more at any place.
PlainDocs == {Records \o fs : fs \in FaceLists} \cup {fs \o Records : fs \in FaceLists}
Docs ==
    PlainDocs \cup
    UNION {{InsertAt(d, p, Item("noise", n)) : p \in 0..Len(d), n \in NoiseLines} :
              d \in PlainDocs}

\* How a writer lays a document out: the gap between the words of a line,
\* what a line starts and ends with, whether the text ends with a newline.
Styles ==
    {[gap |-> <<" ">>, indent |-> <<>>, end |-> <<>>, final |-> FALSE],
     [gap |-> <<"\t", " ">>, indent |-> <<" ">>, end |-> <<" ", "\r">>, final |-> TRUE]}

\* The decimal numeral of a natural number.
RECURSIVE NatChars(_)
NatChars(n) ==
    IF n < 10 THEN <<DigitChars[n + 1]>>
    ELSE NatChars(n \div 10) \o <<DigitChars[(n % 10) + 1]>>

\* The numeral of a whole number or of a whole number and a half.
Numeral(x) ==
    (IF x[1] < 0 THEN <<"-">> ELSE <<>>)
    \o NatChars(Abs(x[1]) \div x[2])
    \o (IF x[2] = 1 THEN <<>> ELSE <<".", "5">>)

\* The words of a line.
Words(item) ==
    CASE item.kind = "f" ->
            <<<<"f">>>> \o [i \in 1..3 |->
                NatChars(item.vals[i][1]) \o <<"/">> \o NatChars(item.vals[i][2])
                \o <<"/">> \o NatChars(item.vals[i][3])]
      [] item.kind = "v" -> <<<<"v">>>> \o [i \in 1..3 |-> Numeral(item.vals[i])]
      [] item.kind = "vn" -> <<<<"v", "n">>>> \o [i \in 1..3 |-> Numeral(item.vals[i])]
      [] item.kind = "vt" -> <<<<"v", "t">>>> \o [i \in 1..2 |-> Numeral(item.vals[i])]

RECURSIVE Join(_, _)
Join(parts, sep) ==
    IF parts = <<>> THEN <<>>
    ELSE IF Len(parts) = 1 THEN parts[1]
    ELSE parts[1] \o sep \o Join(Tail(parts), sep)

\* The text of a document in a style.
WriteLine(item, style) ==
    IF item.kind = "noise" THEN item.vals
    ELSE style.indent \o Join(Words(item), style.gap) \o style.end

Write(doc, style) ==
    Join([i \in 1..Len(doc) |-> WriteLine(doc[i], style)], <<"\n">>)
    \o (IF style.final THEN <<"\n">> ELSE <<>>)

\* loadOBJ is handed one text.
InitOBJ ==
    /\ Blank
    /\ window = <<8, 4>>
    /\ env = [context |-> TRUE, extension |-> TRUE,
              shaders |-> [s \in ShaderSet |-> "ok"]]
    /\ \E d \in Docs, style \in Styles :
          obj = [doc |-> d, text |-> Write(d, style), data |-> NoData]

\* var data = loadOBJ(text)
CallLoadOBJ ==
    /\ obj.data.status = "none"
    /\ obj' = [obj EXCEPT !.data = LoadOBJ(obj.text)]
    /\ cmds' = <<>>
    /\ lastOp' = "loadOBJ"
    /\ UNCHANGED <<phase, env, alerts, console, window, resizePending, canvas, viewport,
                   rendererInit, shaders, textureSize, gBuffer, gMat, attributes, camera,
                   postCamera, meshes, lights, controls, animator, pendingFrames,
                   userMesh, loading>>
    /\ TrackTextures

NextOBJ == CallLoadOBJ

\* loadOBJ applied to every text of the inputs.
SpecOBJ == InitOBJ /\ [][NextOBJ]_vars

\* The records of a kind in a document, in order.
RecordsOf(doc, kind) == SelectSeq(doc, LAMBDA item : item.kind = kind)

\* Every index of every face names a record of the document.
WellFormed(doc) ==
    \A i \in 1..Len(RecordsOf(doc, "f")) : \A j \in 1..3 :
        LET ref == RecordsOf(doc, "f")[i].vals[j]
        IN  /\ ref[1] \in 1..Len(RecordsOf(doc, "v"))
            /\ ref[2] \in 1..Len(RecordsOf(doc, "vt"))
            /\ ref[3] \in 1..Len(RecordsOf(doc, "vn"))

\* The values of one kind the faces of a document name, vertex by vertex
\* in face order; part is the place of the kind's index in a triple.
Named(doc, kind, part) ==
    Flatten([k \in 1..(3 * Len(RecordsOf(doc, "f"))) |->
        RecordsOf(doc, kind)[RecordsOf(doc, "f")[((k - 1) \div 3) + 1]
                                .vals[((k - 1) % 3) + 1][part]].vals])

\* C20: for a text with F face records whose indices name existing
\* records, loadOBJ returns count = F, position and normal of 9F numbers
\* and uv of 6F numbers holding, vertex by vertex in face order, the values
\* of the records the 1-based indices name, and tangent of 9F entries; a
\* blank line, a comment or an unrecognised record anywhere in the text
\* does not change what is returned.
C20_LoadOBJ ==
    obj.data.status # "none" /\ WellFormed(obj.doc) =>
        LET F == Len(RecordsOf(obj.doc, "f"))
            plain == SelectSeq(obj.doc, LAMBDA item : item.kind # "noise")
        IN  /\ obj.data.status = "returned"
            /\ obj.data.count = F
            /\ obj.data.position = Named(obj.doc, "v", 1)
            /\ obj.data.uv = Named(obj.doc, "vt", 2)
            /\ obj.data.normal = Named(obj.doc, "vn", 3)
            /\ Len(obj.data.position) = 9 * F
            /\ Len(obj.data.normal) = 9 * F
            /\ Len(obj.data.uv) = 6 * F
            /\ Len(obj.data.tangent) = 9 * F
            /\ \A style \in Styles : obj.data = LoadOBJ(Write(plain, style))

\* A text in the second style with two faces and a comment that reads like
\* a record, parsed.
C20_Witness ==
    /\ obj.data.status = "returned"
    /\ obj.data.count = 2
    /\ WellFormed(obj.doc)
    /\ \E i \in 1..Len(obj.doc) : obj.doc[i].kind = "noise" /\ obj.doc[i].vals # <<>>
                                    /\ obj.doc[i].vals[1] = "#"
    /\ \E i \in 1..Len(obj.text) : obj.text[i] = "\r"

\* ------------------------------------------- deferred.js: the light loop ---
\* lights[i] in the fragment shader: the i-th vec3 of the uniform array, three
\* consecutive floats of the uploaded data; a vec3 the upload did not reach
\* is zero.
UniformVec3(arr, i) ==
    IF 3 * i + 3 <= Len(arr)
    THEN <<arr[3 * i + 1], arr[3 * i + 2], arr[3 * i + 3]>>
    ELSE <<FInt(0), FInt(0), FInt(0)>>

\* int(params.x): the float with its fraction dropped.
IntOf(x) == IF x[1] >= 0 THEN x[1] \div x[2] ELSE -((-x[1]) \div x[2])

\* A light loop whose third read advances i as well.
RECURSIVE FragmentLightLoopAdvancing(_, _, _)
FragmentLightLoopAdvancing(arr, i, count) ==
    IF ~(i < count) THEN <<>>
    ELSE <<[at |-> <<i, i + 1, i + 2>>,
            lightPos |-> UniformVec3(arr, i),
            lightColor |-> [c \in 1..3 |-> FDiv(UniformVec3(arr, i + 1)[c], FInt(255))],
            lightAtten |-> UniformVec3(arr, i + 2)]>>
         \o FragmentLightLoopAdvancing(arr, i + 4, count)

\* for (int i = 1; i < count; i++) { lightPos = lights[i++];
\* lightColor = lights[i++] / 255.0; lightAtten = lights[i]; ... }: the turns
\* of the loop from i on, each with the indices it reads ([at]) and the
\* values it computes with.
RECURSIVE FragmentLightLoop(_, _, _)
FragmentLightLoop(arr, i, count) ==
    IF ~(i < count) THEN <<>>
    ELSE <<[at |-> <<i, i + 1, i + 2>>,
            lightPos |-> UniformVec3(arr, i),
            lightColor |-> [c \in 1..3 |-> FDiv(UniformVec3(arr, i + 1)[c], FInt(255))],
            lightAtten |-> UniformVec3(arr, i + 2)]>>
         \o FragmentLightLoop(arr, i + 3, count)

\* The loop of one fragment: params = lights[0], count = int(params.x).
FragmentLights(arr) == FragmentLightLoop(arr, 1, IntOf(UniformVec3(arr, 0)[1]))

\* C21: in a frame the shader's light loop, run on the array handed to the
\* 'lights' uniform, makes one turn per visible light and none without one;
\* turn k (from 0) reads vec3 3k+1, 3k+2 and 3k+3, which hold the position,
\* the colour (divided by 255) and the attenuation of the k-th visible
\* light; so no vec3 is read twice or skipped, and none past 3N is read.
C21_LightLoopConsumesArray ==
    lastOp = "frame" =>
        \A turns \in {FragmentLights(LightsValue)} :
            /\ Len(turns) = Len(VisibleLights)
            /\ \A k \in 1..Len(turns) :
                  /\ turns[k].at = <<3 * (k - 1) + 1, 3 * (k - 1) + 2, 3 * (k - 1) + 3>>
                  /\ turns[k].at[3] <= 3 * Len(VisibleLights)
                  /\ turns[k].lightPos = lights[VisibleLights[k]].position
                  /\ turns[k].lightColor =
                        [c \in 1..3 |-> FDiv(lights[VisibleLights[k]].color[c], FInt(255))]
                  /\ turns[k].lightAtten = lights[VisibleLights[k]].attenuation

\* C21 witness: a frame lit by two lights at least, so that the loop's
\* second turn starts where its first one ended.
C21_Witness ==
    /\ lastOp = "frame"
    /\ Len(VisibleLights) >= 2
    /\ Len(FragmentLights(LightsValue)) >= 2

\* C22: a step that is a call setRotations(p, y) leaves the controller with
\* the yaw y and with the pitch p clamped to [-pitchMax, pitchMax].
C22_SetRotationsClampsToPitchMax ==
    [][\A p \in Pitches, y \in Yaws :
          (/\ Listening /\ camera.hasOrbit
           /\ lastOp' = "orbit"
           /\ camera' = [camera EXCEPT !.orbit = SetRotations(camera.orbit, p, y)])
          => /\ camera'.orbit.yaw = y
             /\ camera'.orbit.pitch =
                   Clamp(p, FNeg(camera.orbit.pitchMax), camera.orbit.pitchMax)]_vars

\* What a step may do to the frame loop.
FrameStep ==
    /\ pendingFrames' <= 1
    /\ phase' = "running" <=> pendingFrames' = 1
    /\ phase = "running" => phase' = "running"
    /\ (animator' # animator \/ meshes' # meshes \/ lights' # lights)
          => lastOp' \in {"main", "frame", "gui"}
    /\ lastOp' = "frame" =>
          /\ Cardinality({k \in 1..Len(cmds') :
                            cmds'[k].op = "bindFramebuffer" /\ cmds'[k].b = "null"}) = 1
          /\ Cardinality({k \in 1..Len(cmds') :
                            cmds'[k].op \in DrawOps /\ cmds'[k].owner = DefQuad}) = 1
          /\ ~controls.animateOn =>
                /\ animator'.theta = animator.theta
                /\ \A m \in 1..Len(meshes) : meshes'[m].rotation = meshes[m].rotation
                /\ phase = "running" =>
                      \A l \in 1..Len(lights) : lights'[l].position = lights[l].position

\* C23: at any time at most one frame callback is pending, and exactly one
\* from the first animate on (the loop neither stops nor multiplies); every
\* animate renders the scene exactly once, with animation on or off; with
\* animateOn false the frame leaves theta, the mesh rotations and, from the
\* second frame on, the light positions as the previous frame left them.
C23_FrameLoop == [][FrameStep]_vars

\* C23 witness: a frame drawn with animation switched off after it had
\* advanced, in a running loop with its one callback pending.
C23_Witness ==
    /\ lastOp = "frame"
    /\ phase = "running"
    /\ pendingFrames = 1
    /\ ~controls.animateOn
    /\ animator.theta > 0

\* What a step may do to the gBuffer material.
GBufferStep ==
    /\ rendererInit' =>
          /\ gMat'.textures["base"] = <<"gBuffer", "position">>
          /\ \A r \in {"albedo", "normal", "material", "position"} :
                gMat'.textures[r] = <<"gBuffer", r>>
          /\ gMat'.roles = <<"albedo", "normal", "material", "base", "position">>
    /\ lastOp' = "frame" /\ ~attributes.drawGbuffer =>
          /\ gMat' = gMat
          /\ \A k \in 1..Len(cmds') : cmds'[k].owner # BufQuad

\* C24: once the Renderer is constructed every handler (main.js, a frame
\* with or without the overlay, a resize, a panel toggle) leaves the base
\* slot of the gBuffer material on the position texture, so that is what
\* every frame and every resize finds; the slots albedo, normal, material
\* and position keep their textures; a frame with the overlay off leaves the
\* material as it was and issues no call for the debug quad.
C24_BaseSlotIsPosition == [][GBufferStep]_vars

\* C24 witness: a later frame whose overlay put the albedo texture in the
\* base slot for its first quad, and three more after it, and after which
\* the slot holds the position texture.
C24_Witness ==
    /\ lastOp = "frame"
    /\ animator.theta > 0
    /\ attributes.drawGbuffer
    /\ Len(OverlayDraws) = 4
    /\ ShownTexture(OverlayDraws[1]) = <<"gBuffer", "albedo">>
    /\ gMat.textures["base"] = <<"gBuffer", "position">>

\* No listener of a finished drag or touch is left on the canvas, and never
\* more than one of a kind.
ListenersReleased ==
    camera.hasOrbit =>
        /\ ~camera.orbit.mouseHeld => camera.orbit.dragListeners = 0
        /\ ~camera.orbit.touchStarted => camera.orbit.touchListeners = 0
        /\ camera.orbit.dragListeners <= 1
        /\ camera.orbit.touchListeners <= 1

\* A pointer move or a touch move that finds no drag, resp. no touch, active
\* leaves pitch and yaw as they are.
IdleMoveIgnored ==
    \A n \in TouchCounts, x, y \in PointerCoords :
        /\ (/\ Listening /\ camera.hasOrbit /\ ~camera.orbit.mouseHeld
            /\ camera' = [camera EXCEPT !.orbit =
                             Dispatch(camera.orbit, "mousemove", 1, x, y,
                                      camera.orbit.dragListeners)])
           => camera'.orbit.pitch = camera.orbit.pitch
              /\ camera'.orbit.yaw = camera.orbit.yaw
        /\ (/\ Listening /\ camera.hasOrbit /\ ~camera.orbit.touchStarted
            /\ camera' = [camera EXCEPT !.orbit =
                             Dispatch(camera.orbit, "touchmove", n, x, y,
                                      camera.orbit.touchListeners)])
           => camera'.orbit.pitch = camera.orbit.pitch
              /\ camera'.orbit.yaw = camera.orbit.yaw

\* C25: after every handler the canvas holds no mousemove or mouseup
\* listener unless a drag is on, no touchmove, touchend or touchcancel
\* listener unless a touch is on, and at most one of each kind; a move that
\* finds no drag or touch active leaves pitch and yaw unchanged.
C25_ListenersReleased == [][ListenersReleased' /\ IdleMoveIgnored]_vars

\* ------------------------------------------- MeshInstance.translate... ---
\* MeshInstance.translate
Translate(inst, x, y, z) ==
    [inst EXCEPT !.position = <<FAdd(@[1], x), FAdd(@[2], y), FAdd(@[3], z)>>]

\* MeshInstance.translateX: the class body defines translateX twice, and the
\* second definition, translateX(z) { this.position[2] += z; }, is the one
\* the class keeps.
TranslateX(inst, z) == [inst EXCEPT !.position[3] = FAdd(@, z)]

\* MeshInstance.translateY
TranslateY(inst, y) == [inst EXCEPT !.position[2] = FAdd(@, y)]

\* The distances the caller moves a mesh by, and how far from the origin, per
\* axis, the calls may take it.
Shifts == {FInt(-100), FInt(100)}
MaxOffset == 160

\* A call of the script on scene mesh m that leaves it as inst.
MeshStep(m, inst, method) ==
    /\ Listening
    /\ \A c \in 1..3 : FLe(FInt(-MaxOffset), inst.position[c])
                       /\ FLe(inst.position[c], FInt(MaxOffset))
    /\ meshes' = [meshes EXCEPT ![m] = inst]
    /\ cmds' = <<>>
    /\ lastOp' = method
    /\ UNCHANGED <<phase, env, alerts, console, window, resizePending, canvas, viewport,
                   rendererInit, shaders, textureSize, gBuffer, gMat, attributes, camera,
                   postCamera, lights, controls, animator, pendingFrames, userMesh, obj,
                   loading>>
    /\ TrackTextures

CallTranslate ==
    \E m \in 1..NumMeshes, x, y, z \in Shifts :
        MeshStep(m, Translate(meshes[m], x, y, z), "translate")

CallTranslateX ==
    \E m \in 1..NumMeshes, x \in Shifts :
        MeshStep(m, TranslateX(meshes[m], x), "translateX")

CallTranslateY ==
    \E m \in 1..NumMeshes, y \in Shifts :
        MeshStep(m, TranslateY(meshes[m], y), "translateY")

NextTranslate ==
    \/ Main
    \/ CallTranslate
    \/ CallTranslateX
    \/ CallTranslateY

\* main.js, then calls of the translate methods on the scene's meshes.
SpecTranslate == Init /\ [][NextTranslate]_vars

\* The step leaves mesh m with its position moved by (x, y, z) and nothing
\* else of it changed, and every other mesh as it was.
MovedBy(m, x, y, z) ==
    /\ meshes'[m].position = <<FAdd(meshes[m].position[1], x),
                               FAdd(meshes[m].position[2], y),
                               FAdd(meshes[m].position[3], z)>>
    /\ meshes'[m].scale = meshes[m].scale
    /\ meshes'[m].rotation = meshes[m].rotation
    /\ meshes'[m].visible = meshes[m].visible
    /\ \A n \in 1..NumMeshes \ {m} : meshes'[n] = meshes[n]

\* C26: a call translateX(x) on a mesh moves it by (x, 0, 0), a call
\* translateY(y) by (0, y, 0), a call translate(x, y, z) by (x, y, z), and
\* none of them changes the scale, the rotation or the visibility.
C26_TranslateMovesOneAxis ==
    [][\A m \in 1..NumMeshes, x, y, z \in Shifts :
          /\ lastOp' = "translateX" /\ meshes' = [meshes EXCEPT ![m] = TranslateX(meshes[m], x)]
                => MovedBy(m, x, FInt(0), FInt(0))
          /\ lastOp' = "translateY" /\ meshes' = [meshes EXCEPT ![m] = TranslateY(meshes[m], y)]
                => MovedBy(m, FInt(0), y, FInt(0))
          /\ lastOp' = "translate"
             /\ meshes' = [meshes EXCEPT ![m] = Translate(meshes[m], x, y, z)]
                => MovedBy(m, x, y, z)]_vars

====
